---------------------------- MODULE Spec2Model ----------------------------
(***************************************************************************)
(* State-machine model of the security layer of algocredit-backend:        *)
(*   src/security/api_key_manager.py   (APIKeyManager)                      *)
(*   src/security/rate_limiter.py      (AdaptiveRateLimiter)                *)
(*   src/security/transaction_validator.py (TransactionValidator)           *)
(*   src/security/middleware.py        (Web3SecurityMiddleware)             *)
(* All cross-request state lives in the key-value store (Redis); the model  *)
(* keeps one variable per family of Redis keys.                             *)
(*                                                                          *)
(* Time.  time.time() is a float number of seconds; the model's clock `now` *)
(* counts ticks of 1/TicksPerSec second.  Token counts are floats in the    *)
(* code; the model keeps them exactly, in units of 1/TokenUnit token with   *)
(* TokenUnit = 60 * TicksPerSec, so that the refill of one tick at a rate   *)
(* of requests_per_minute is exactly requests_per_minute units.             *)
(* Threat scores are kept in tenths (80 is the score 8.0).                  *)
(***************************************************************************)
EXTENDS Integers, Sequences, FiniteSets, TLC

VARIABLES
    now,          \* time.time(), in ticks
    buckets,      \* Redis db3: bucket_key -> hash {tokens, last_refill, last_request} + TTL
    ddos,         \* Redis db3: ip -> the three counters ddos_minute/ddos_hour/ddos_burst
    ddos_events,  \* Redis db3: the ddos_event:{second}:{ip} hashes written
    api_keys,     \* Redis db1: api_key -> hash api_key:{api_key} of the key's metadata
    whitelist,    \* Redis db1: api_key -> set api_key_whitelist:{api_key} (or none)
    keyHist,      \* history: per key, whether it was ever suspended and its last write
    ret,          \* the last call: its operation, its arguments and what it returned
    allowLog,     \* history: times of the ALLOWs of the current run of checks on a bucket
    runLimits,    \* history: the adjusted limits all checks of that run used
    nAllowed,     \* history: requests served per bucket since it was created
    reqLog,       \* history: the requests one client sent through authenticate_request
    tvStore,      \* Redis db4: the keys of the transaction validator, by family
    tdStore,      \* Redis db2: the keys of the threat detector, by family
    procs         \* the calls in progress: per caller, its position and its locals

vars == <<now, buckets, ddos, ddos_events, api_keys, whitelist, keyHist, ret,
          allowLog, runLimits, nAllowed, reqLog, tvStore, tdStore, procs>>

keyVars == <<api_keys, whitelist, keyHist>>

Min(a, b) == IF a < b THEN a ELSE b
Max(a, b) == IF a > b THEN a ELSE b

\* ceil(a / b) for a >= 0, b > 0
CeilDiv(a, b) == (a + b - 1) \div b

\* the concurrent callers, and a caller that is not inside a call
Callers == {"p1", "p2"}
NoCalls == [p \in Callers |-> [pc |-> "idle"]]

(***************************************************************************)
(* Bounds of the model                                                      *)
(***************************************************************************)
TicksPerSec == 2
MaxTicks == 6

TokenUnit == 60 * TicksPerSec

\* Python's None where a number is expected
None == 0 - 1


(***************************************************************************)
(* AdaptiveRateLimiter (rate_limiter.py)                                    *)
(***************************************************************************)
TierNames == {"free", "pro", "enterprise"}

\* self.default_limits.get(tier, self.default_limits["free"])
default_limits(tier) ==
    IF tier = "pro"
    THEN [requests_per_minute |-> 300, requests_per_hour |-> 10000, burst_capacity |-> 50]
    ELSE IF tier = "enterprise"
    THEN [requests_per_minute |-> 1000, requests_per_hour |-> 50000, burst_capacity |-> 200]
    ELSE [requests_per_minute |-> 60, requests_per_hour |-> 1000, burst_capacity |-> 10]

BaseValues == {60, 1000, 10, 300, 10000, 50, 50000, 200}

(* int(base * max(0.1, 1.0 - threat_score / 10.0)) in IEEE double arithmetic, *)
(* for threat scores that are multiples of 0.1 in [0, 12] (t is in tenths).   *)
(* The exact value is floor(base * max(10, 100 - t) / 100).  Binary floating  *)
(* point differs where 1.0 - t/10 rounds below the exact multiplier and the   *)
(* exact product is an integer: 1.0 - 0.8 = 0.19999999999999996, so           *)
(* int(10 * 0.19999999999999996) = 1, and likewise at the scores below.       *)
Hundreds == {200, 300, 1000, 10000, 50000}

FloatShortfall ==
    {<<80, b>> : b \in BaseValues}
        \cup {<<t, b>> : t \in {57, 59, 67, 69, 79, 83, 89}, b \in Hundreds}
        \cup {<<t, b>> : t \in {44, 78, 84, 88}, b \in Hundreds \cup {50}}
        \cup {<<t, b>> : t \in {31, 32}, b \in {300, 10000}}
        \cup {<<42, b>> : b \in {50, 200, 50000}}
        \cup {<<55, b>> : b \in {60, 200, 1000, 50000}}
        \cup {<<32, 1000>>, <<54, 1000>>, <<77, 1000>>}

\* the adjustment without the floor of the multiplier at 0.1
AdjustValue_NoFloor(base, t) == (base * (100 - t)) \div 100

AdjustValue(base, t) ==
    LET exact == (base * Max(10, 100 - t)) \div 100
    IN  IF <<t, base>> \in FloatShortfall THEN exact - 1 ELSE exact

adjust_limits_for_threat(base_limits, threat_score) ==
    [requests_per_minute |-> AdjustValue(base_limits.requests_per_minute, threat_score),
     requests_per_hour   |-> AdjustValue(base_limits.requests_per_hour, threat_score),
     burst_capacity      |-> AdjustValue(base_limits.burst_capacity, threat_score)]

\* f"bucket:{limit_type.value}:{identifier}" (+ f":{endpoint}" if endpoint); "" is no endpoint
BucketKey(limit_type, identifier, endpoint) == <<limit_type, identifier, endpoint>>

NoBucket == [present |-> FALSE, tokens |-> 0, last_refill |-> 0, expire_at |-> None]

\* a Redis key with a TTL is gone once the TTL has run out
Live(entry, t) == entry.present /\ (entry.expire_at = None \/ t < entry.expire_at)

BucketTTL == 3600

\* The points of _token_bucket_check where the store may raise
BucketFailPoints == {"none", "hgetall", "hset", "expire"}

\* RateLimitResult of the except branches (lines 94-98, 156-160)
FailOpenResult(t) ==
    [action |-> "allow", remaining_requests |-> 100,
     reset_time |-> (t \div TicksPerSec) + 60, retry_after |-> None, threat_level |-> 0]

\* the refill without its cap: tokens + tokens_to_add
RefilledTokens_Uncapped(b, limits, t) ==
    LET tokens == IF Live(b, t) THEN b.tokens ELSE limits.burst_capacity * TokenUnit
        last_refill == IF Live(b, t) THEN b.last_refill ELSE t
    IN  tokens + (t - last_refill) * limits.requests_per_minute

\* tokens after the refill of lines 106-118, before the request is served
RefilledTokens(b, limits, t) ==
    LET tokens == IF Live(b, t) THEN b.tokens ELSE limits.burst_capacity * TokenUnit
        last_refill == IF Live(b, t) THEN b.last_refill ELSE t
        tokens_to_add == (t - last_refill) * limits.requests_per_minute
    IN  Min(limits.burst_capacity * TokenUnit, tokens + tokens_to_add)

\* the test written as "if tokens > 0"
CanServe_AnyToken(tokens) == tokens > 0

\* line 121: if tokens >= 1.0
CanServe(tokens) == tokens >= TokenUnit

TakeToken_None(tokens) == tokens

\* line 123: tokens -= 1.0
TakeToken(tokens) == tokens - TokenUnit

\* line 128: THROTTLE if tokens > 0.1 else BLOCK
DenyAction(tokens) == IF tokens * 10 > TokenUnit THEN "throttle" ELSE "block"

\* the whole seconds in the time to regain one token
RetryAfter_TimeToToken(tokens, limits) ==
    (TokenUnit - tokens) \div (TicksPerSec * limits.requests_per_minute)

\* line 151: int(60 - (tokens * 60 / requests_per_minute)), tokens in [0, 1)
RetryAfter(tokens, limits) ==
    60 - CeilDiv(tokens, TicksPerSec * limits.requests_per_minute)

\* lines 141-145
ResetTime(tokens, limits, t) ==
    IF tokens < limits.burst_capacity * TokenUnit
    THEN (t * limits.requests_per_minute + (limits.burst_capacity * TokenUnit - tokens))
             \div (TicksPerSec * limits.requests_per_minute)
    ELSE (t \div TicksPerSec) + 60

(* _token_bucket_check: the bucket it leaves in the store and the result it *)
(* returns, when the store raises at `fail`.                                *)
token_bucket_check(b, limits, t, fail) ==
    LET refilled == RefilledTokens(b, limits, t)
        tokens == IF CanServe(refilled) THEN TakeToken(refilled) ELSE refilled
        action == IF CanServe(refilled) THEN "allow" ELSE DenyAction(refilled)
        remaining == IF CanServe(refilled) THEN tokens \div TokenUnit ELSE 0
        \* HSET keeps the TTL of a live key; a new key has none until EXPIRE
        written == [present |-> TRUE, tokens |-> tokens, last_refill |-> t,
                    expire_at |-> IF Live(b, t) THEN b.expire_at ELSE None]
        expiring == [written EXCEPT !.expire_at = t + BucketTTL * TicksPerSec]
    IN  IF fail = "hgetall" THEN [bucket |-> b, result |-> FailOpenResult(t)]
        ELSE IF fail = "hset" THEN [bucket |-> b, result |-> FailOpenResult(t)]
        ELSE IF fail = "expire" THEN [bucket |-> written, result |-> FailOpenResult(t)]
        ELSE [bucket |-> expiring,
              result |-> [action |-> action,
                          remaining_requests |-> remaining,
                          reset_time |-> ResetTime(tokens, limits, t),
                          retry_after |-> IF action # "allow"
                                          THEN RetryAfter(tokens, limits) ELSE None,
                          threat_level |-> 0]]

(* History kept for the claims: the ALLOW times of the current run of       *)
(* checks with the same limits, cut to those less than one refill period    *)
(* (the time to regain one token, 60 / requests_per_minute s) before t.     *)
RECURSIVE Recent(_, _, _)
Recent(log, limits, t) ==
    IF log = <<>> THEN <<>>
    ELSE IF (t - Head(log)) * limits.requests_per_minute < TokenUnit
         THEN log
         ELSE Recent(Tail(log), limits, t)

NextAllowLog(log, oldLimits, limits, t, allowed) ==
    LET kept == IF oldLimits = limits THEN Recent(log, limits, t) ELSE <<>>
    IN  IF allowed THEN Append(kept, t) ELSE kept

(* check_rate_limit(identifier, limit_type, tier, endpoint, threat_score)   *)
(* on the bucket store bs at time t: the store it leaves and its result.    *)
check_rate_limit(bs, identifier, limit_type, tier, endpoint, threat_score, t, fail) ==
    LET key == BucketKey(limit_type, identifier, endpoint)
        limits == adjust_limits_for_threat(default_limits(tier), threat_score)
        out == token_bucket_check(bs[key], limits, t, fail)
    IN  [buckets |-> [bs EXCEPT ![key] = out.bucket],
         result |-> out.result, key |-> key, limits |-> limits]

(***************************************************************************)
(* check_ddos_protection(ip_address): three INCR-then-EXPIRE counters       *)
(***************************************************************************)
NoCounter == [count |-> 0, expire_at |-> None]
NoDdos == [minute |-> NoCounter, hour |-> NoCounter, burst |-> NoCounter]

CounterLive(c, t) == c.count > 0 /\ (c.expire_at = None \/ t < c.expire_at)

\* INCR: a missing (or expired) key counts from 0 and has no TTL
Incr(c, t) == IF CounterLive(c, t) THEN [c EXCEPT !.count = c.count + 1]
              ELSE [count |-> 1, expire_at |-> None]

\* EXPIRE key seconds
Expire(c, t, seconds) == [c EXCEPT !.expire_at = t + seconds * TicksPerSec]

minute_threshold == 120
hour_threshold == 5000
burst_threshold == 50
burst_window == 10
MinuteTTL == 60
HourTTL == 3600

\* the escalation with the minute count tested before the burst count
ddos_action_MinuteFirst(burst_count, minute_count, hour_count) ==
    IF minute_count > minute_threshold THEN "throttle"
    ELSE IF burst_count > burst_threshold THEN "block"
    ELSE IF hour_count > hour_threshold THEN "captcha"
    ELSE "allow"

\* lines 199-210
ddos_action(burst_count, minute_count, hour_count) ==
    IF burst_count > burst_threshold THEN "block"
    ELSE IF minute_count > minute_threshold THEN "throttle"
    ELSE IF hour_count > hour_threshold THEN "captcha"
    ELSE "allow"

ddos_retry_after(action) ==
    IF action = "block" THEN 300
    ELSE IF action = "throttle" THEN 60
    ELSE IF action = "captcha" THEN 30
    ELSE None

\* The store calls of check_ddos_protection, in order; the store may raise at one
DdosFailPoints ==
    {"none", "incr_minute", "expire_minute", "incr_hour", "expire_hour",
     "incr_burst", "expire_burst", "log_hset", "log_expire"}

DdosStep(fail) ==
    IF fail = "incr_minute" THEN 1 ELSE IF fail = "expire_minute" THEN 2
    ELSE IF fail = "incr_hour" THEN 3 ELSE IF fail = "expire_hour" THEN 4
    ELSE IF fail = "incr_burst" THEN 5 ELSE IF fail = "expire_burst" THEN 6
    ELSE IF fail = "log_hset" THEN 7 ELSE IF fail = "log_expire" THEN 8
    ELSE 9

\* _log_ddos_event called outside the try, its errors swallowed
DdosRaises_LogUnguarded(n, logs) == n <= 6

\* the store call numbered n raises inside the try of lines 175-231; the two
\* calls of _log_ddos_event (lines 213-215) are made only when action != ALLOW
DdosRaises(n, logs) == n <= 6 \/ (logs /\ n <= 8)

(* check_ddos_protection on the counters d of one IP.  A store call that    *)
(* raises leaves the writes made before it; the except branch returns ALLOW.*)
(* threat_level = min(10.0, minute_count / 120 * 5.0) is kept in 24ths.     *)
check_ddos_protection(d, events, ip, t, fail) ==
    LET n == DdosStep(fail)
        m1 == Incr(d.minute, t)
        m2 == Expire(m1, t, MinuteTTL)
        h1 == Incr(d.hour, t)
        h2 == Expire(h1, t, HourTTL)
        b1 == Incr(d.burst, t)
        b2 == Expire(b1, t, burst_window)
        action == ddos_action(b1.count, m1.count, h1.count)
        logs == action # "allow"
        raised == DdosRaises(n, logs)
        after == [minute |-> IF n > 2 THEN m2 ELSE IF n > 1 THEN m1 ELSE d.minute,
                  hour   |-> IF n > 4 THEN h2 ELSE IF n > 3 THEN h1 ELSE d.hour,
                  burst  |-> IF n > 6 THEN b2 ELSE IF n > 5 THEN b1 ELSE d.burst]
    IN  [ddos |-> after,
         \* _log_ddos_event: hset ddos_event:{int(time)}:{ip}
         events |-> IF logs /\ n > 7 THEN events \cup {<<t \div TicksPerSec, ip>>}
                    ELSE events,
         raised |-> raised,
         computed |-> IF n > 6 THEN action ELSE "none",
         result |-> IF raised THEN FailOpenResult(t)
                    ELSE [action |-> action,
                          remaining_requests |-> Max(0, minute_threshold - m1.count),
                          reset_time |-> (t \div TicksPerSec) + 60,
                          retry_after |-> ddos_retry_after(action),
                          threat_level |-> Min(240, m1.count)]]


(***************************************************************************)
(* APIKeyManager (api_key_manager.py)                                       *)
(***************************************************************************)
\* "ac_live_" + sha256(f"{user_id}:{timestamp}:{tier}")[:32]: the digest is taken
\* to be injective, so a key is named by what is hashed
ApiKey(user_id, timestamp, tier) == <<user_id, timestamp, tier>>

\* a token that fails the prefix/length test of line 70
MalformedKey == <<"malformed", 0, "">>

WellFormed(api_key) == api_key[1] # "malformed"

(* The hash api_key:{api_key}.  A field that was never set reads as the     *)
(* default the code gives key_data.get: status "", threat_score 0.0,        *)
(* usage_count 0; tier "" stands for the missing field (read as "free").    *)
NoKey == [present |-> FALSE, user_id |-> "", tier |-> "", created_at |-> None,
          status |-> "", last_used |-> None, usage_count |-> 0, threat_score |-> 0]

\* lines 49-61: every field of the hash is written
generate_api_key(keys, user_id, tier, t) ==
    LET timestamp == t \div TicksPerSec
        api_key == ApiKey(user_id, timestamp, tier)
    IN  [api_key |-> api_key,
         keys |-> [keys EXCEPT ![api_key] =
                      [present |-> TRUE, user_id |-> user_id, tier |-> tier,
                       created_at |-> timestamp, status |-> "active",
                       last_used |-> None, usage_count |-> 0, threat_score |-> 0]]]

suspend_threshold == 80

\* the threshold test one point too high: if threat_score > 9.0
Suspends_Above9(threat_score) == threat_score > suspend_threshold + 10

\* line 154: if threat_score > 8.0
Suspends(threat_score) == threat_score > suspend_threshold

\* line 151: hset api_key:{api_key} threat_score
set_threat_score(keys, api_key, threat_score) ==
    [keys EXCEPT ![api_key] = [@ EXCEPT !.present = TRUE,
                                        !.threat_score = threat_score]]

\* lines 154-155: hset api_key:{api_key} status suspended, if the score is too high
suspend_if_high(keys, api_key, threat_score) ==
    [keys EXCEPT ![api_key] =
        [@ EXCEPT !.status = IF Suspends(threat_score) THEN "suspended" ELSE @]]

\* lines 149-156: hset threat_score, then hset status if the score is too high
update_threat_score(keys, api_key, threat_score) ==
    suspend_if_high(set_threat_score(keys, api_key, threat_score), api_key, threat_score)

InvalidContext ==
    [api_key_id |-> <<>>, user_id |-> "", tier |-> "", is_valid |-> FALSE, threat_score |-> 0]

\* line 81: if status != APIKeyStatus.ACTIVE.value
Inactive(status) == status # "active"

\* SMEMBERS/EXISTS of a set that was never filled
NoWhitelist == {}

\* The store calls of validate_api_key, in order; the store may raise at one
ValidateFailPoints == {"none", "hgetall", "hincrby", "hset", "exists", "smembers"}

(* validate_api_key(api_key, ip_address) ("" is no ip_address): the hash it *)
(* leaves and the SecurityContext it returns.  Any exception gives the      *)
(* invalid context (lines 115-117); the writes made before it stay.         *)
validate_api_key(keys, wl, api_key, ip_address, t, fail) ==
    LET key_data == keys[api_key]
        counted == [key_data EXCEPT !.usage_count = @ + 1]
        used == [counted EXCEPT !.last_used = t \div TicksPerSec]
        listed == ip_address # "" /\ wl[api_key] # NoWhitelist
        invalid(k) == [keys |-> [keys EXCEPT ![api_key] = k], context |-> InvalidContext]
    IN  IF ~WellFormed(api_key) THEN invalid(key_data)
        ELSE IF fail = "hgetall" THEN invalid(key_data)
        ELSE IF ~key_data.present THEN invalid(key_data)
        ELSE IF Inactive(key_data.status) THEN invalid(key_data)
        ELSE IF fail = "hincrby" THEN invalid(key_data)
        ELSE IF fail = "hset" THEN invalid(counted)
        ELSE IF ip_address # "" /\ fail = "exists" THEN invalid(used)
        ELSE IF listed /\ fail = "smembers" THEN invalid(used)
        ELSE IF listed /\ ip_address \notin wl[api_key] THEN invalid(used)
        ELSE [keys |-> [keys EXCEPT ![api_key] = used],
              context |-> [api_key_id |-> api_key,
                           user_id |-> key_data.user_id,
                           tier |-> IF key_data.tier = "" THEN "free" ELSE key_data.tier,
                           is_valid |-> TRUE,
                           threat_score |-> key_data.threat_score]]

(***************************************************************************)
(* TransactionValidator (transaction_validator.py)                          *)
(* Risk scores are kept in tenths (80 is 8.0).  Amounts are kept in units   *)
(* of AmountUnit microAlgos, half an ALGO, so that the thresholds of 1, 10, *)
(* 100 and 100000 ALGO and the test amount % 1000000 == 0 are exact.        *)
(***************************************************************************)
AmountUnit == 500000
Algo == 1000000 \div AmountUnit

\* transaction_data: the values of its keys, the keys it lacks (missing), and
\* the keys among fee and amount whose JSON value is not a number (malformed)
valid_types == {"pay", "keyreg", "acfg", "axfer", "afrz", "appl"}
required_fields == {"type", "sender", "fee"}

\* line 49: self.blacklisted_addresses = set(), never added to
blacklisted_addresses == {}

\* addresses that encoding.decode_address accepts (58 characters, good checksum)
ValidAddresses == {"ADDR_A", "ADDR_B"}

is_valid_algorand_address(address) == address \in ValidAddresses

Get(tx, field, default) == IF field \in tx.missing THEN default ELSE tx[field]

RECURSIVE SumSeq(_)
SumSeq(seq) == IF seq = <<>> THEN 0 ELSE Head(seq) + SumSeq(Tail(seq))

\* LRANGE key 0 stop
LRange(items, stop) == SubSeq(items, 1, Min(stop + 1, Len(items)))

\* [recent_times[i] - recent_times[i+1] for i in range(len(recent_times)-1)]
Intervals(times) == [i \in 1..(Len(times) - 1) |-> times[i] - times[i + 1]]

NoList == [items |-> <<>>, expire_at |-> None]
ListLive(l, t) == l.items # <<>> /\ (l.expire_at = None \/ t < l.expire_at)

\* LPUSH key x, then EXPIRE key seconds
LPushExpire(l, t, x, seconds) ==
    [items |-> <<x>> \o (IF ListLive(l, t) THEN l.items ELSE <<>>),
     expire_at |-> t + seconds * TicksPerSec]

\* wallet_avg:{wallet} and wallet_count:{wallet}: the average is kept as the
\* pair (total, count) with avg = total / count
NoAverage == [present |-> FALSE, total |-> 0, count |-> 0]
NoReplay == [present |-> FALSE, last_seen |-> 0, expire_at |-> None]

(* Each sub-check reads and writes its own family of keys only.  A          *)
(* sub-check is given the value of its key and returns the value it leaves, *)
(* its risk and whether it raised.                                          *)
Part(value, risk, raised) == [value |-> value, risk |-> risk, raised |-> raised]

\* the fee check with the minimum fee itself counted as too low
FeeRisk_MinimumTooLow(fee) ==
    IF fee <= 1000 THEN 10 ELSE IF fee > 10000 THEN 20 ELSE 0

\* lines 180-187: a fee below the minimum, or unusually high
FeeRisk(fee) ==
    IF fee < 1000 THEN 10 ELSE IF fee > 10000 THEN 20 ELSE 0

\* lines 160-188; the comparison of a fee that is not a number raises TypeError
validate_basic_structure(tx) ==
    LET missing == 20 * Cardinality(required_fields \cap tx.missing)
        tx_type == Get(tx, "type", "")
        badType == IF tx_type # "" /\ tx_type \notin valid_types THEN 30 ELSE 0
        fee == Get(tx, "fee", 0)
    IN  IF "fee" \in tx.malformed /\ "fee" \notin tx.missing
        THEN Part(<<>>, 0, TRUE)
        ELSE Part(<<>>, missing + badType + FeeRisk(fee), FALSE)

\* lines 190-216
validate_addresses(tx) ==
    LET sender == Get(tx, "sender", "")
        receiver == Get(tx, "receiver", "")
        senderRisk == IF sender = "" THEN 0
                      ELSE IF sender \in blacklisted_addresses THEN 80
                      ELSE IF ~is_valid_algorand_address(sender) THEN 50
                      ELSE 0
        receiverRisk == IF Get(tx, "type", "") # "pay" \/ receiver = "" THEN 0
                        ELSE IF receiver \in blacklisted_addresses THEN 60
                        ELSE IF ~is_valid_algorand_address(receiver) THEN 30
                        ELSE 0
    IN  Part(<<>>, senderRisk + receiverRisk, FALSE)

\* lines 476-492 on wallet_avg/wallet_count of the wallet: every error inside is
\* caught and logged
update_wallet_average(avg, amount, fail) ==
    IF fail = "update_avg" THEN avg
    ELSE [present |-> TRUE, total |-> avg.total + amount, count |-> avg.count + 1]

\* lines 218-247; redis.get(avg_key) is outside any try of the sub-check, and
\* the comparison of an amount that is not a number raises TypeError
validate_amounts(avg, tx, fail) ==
    LET amount == Get(tx, "amount", 0)
        large == IF avg.present /\ amount * avg.count > avg.total * 100
                                /\ amount > 10 * Algo THEN 30 ELSE 0
        round == IF avg.present /\ amount % Algo = 0 /\ amount > 100 * Algo
                 THEN 10 ELSE 0
    IN  IF "amount" \in tx.malformed /\ "amount" \notin tx.missing
        THEN Part(avg, 0, TRUE)
        ELSE IF amount <= 0 THEN Part(avg, 0, FALSE)
        ELSE IF fail = "get_avg" THEN Part(avg, 0, TRUE)
        ELSE Part(update_wallet_average(avg, amount, fail), large + round, FALSE)

\* lines 414-432: sha256 of the JSON of the eight fields, those that are None
\* left out; the digest is taken to be injective
create_advanced_fingerprint(tx) == tx

\* the replay risk with the one-minute risk kept for as long as the key lives
ReplayRisk_WhileStored(exists, time_diff) ==
    IF exists THEN 70 ELSE 0

\* lines 260-269: the risk by the time since the fingerprint was last seen
ReplayRisk(exists, time_diff) ==
    IF exists /\ time_diff < 60 * TicksPerSec THEN 70
    ELSE IF exists /\ time_diff < 300 * TicksPerSec THEN 30
    ELSE 0

\* lines 249-277, inside its own try, on replay:{api_key}:{fingerprint}
detect_replay_attack(seen, t, fail) ==
    LET exists == seen.present /\ t < seen.expire_at
        time_diff == t - seen.last_seen
    IN  IF fail = "replay" THEN Part(seen, 0, FALSE)
        ELSE Part([present |-> TRUE, last_seen |-> t,
                   expire_at |-> t + 3600 * TicksPerSec],
                  ReplayRisk(exists, time_diff), FALSE)

\* lines 279-315, inside its own try, on mev_timing:{wallet}
detect_mev_attack(list, tx, t, fail) ==
    LET timing == LPushExpire(list, t, t, 300)
        recent_times == LRange(timing.items, 10)
        time_diffs == Intervals(recent_times)
        \* avg_interval < 10
        rapid == IF SumSeq(time_diffs) < 10 * TicksPerSec * Len(time_diffs)
                 THEN 40 ELSE 0
        sandwich == IF Get(tx, "amount", 0) > Algo THEN 50 ELSE 0
    IN  IF fail = "mev" THEN Part(list, 0, FALSE)
        ELSE Part(timing, IF Len(recent_times) >= 3 THEN rapid + sandwich ELSE 0, FALSE)

\* lines 317-350, inside its own try, on flash_sequence:{wallet}; it reads
\* wallet_balance:{wallet}
detect_flash_loan_attack(list, typical_balance, tx, t, fail) ==
    LET amount == Get(tx, "amount", 0)
        indicator == IF typical_balance # None /\ amount > typical_balance * 10
                     THEN 60 ELSE 0
        sequence == LPushExpire(list, t, t, 60)
        many == IF Len(LRange(sequence.items, 5)) >= 3 THEN 40 ELSE 0
    IN  IF amount > 100000 * Algo
        THEN IF fail = "flash" THEN Part(list, 0, FALSE)
             ELSE Part(sequence, indicator + many, FALSE)
        ELSE Part(list, 0, FALSE)

\* lines 446-451: SMEMBERS malicious_contracts, outside any try of the sub-check
get_malicious_contracts(malicious_contracts) == malicious_contracts

\* lines 352-371
validate_contract_interaction(malicious_contracts, tx, fail) ==
    LET listed == IF "application_id" \notin tx.missing
                     /\ tx.application_id \in get_malicious_contracts(malicious_contracts)
                  THEN 90 ELSE 0
        args == IF Get(tx, "application_args", "plain") = "suspicious" THEN 30 ELSE 0
    IN  IF Get(tx, "type", "") # "appl" THEN Part(<<>>, 0, FALSE)
        ELSE IF fail = "smembers" THEN Part(<<>>, 0, TRUE)
        ELSE Part(<<>>, listed + args, FALSE)

\* (n * x - sum) ** 2, the square of x - avg times n ** 2
SquaredDeviation(x, n, total) == (n * x - total) * (n * x - total)

\* sum((x - avg) ** 2 for x in intervals) / len(intervals) < 2.0 ** 2, with
\* avg = sum / n, multiplied through by n ** 3
RegularIntervals(intervals) ==
    LET n == Len(intervals)
        total == SumSeq(intervals)
        squares == SumSeq([i \in 1..n |-> SquaredDeviation(intervals[i], n, total)])
    IN  squares < 4 * TicksPerSec * TicksPerSec * n * n * n

\* lines 373-412, inside its own try, on temporal:{api_key}:{wallet}
analyze_temporal_patterns(list, t, fail) ==
    LET pattern == LPushExpire(list, t, t, 3600)
        recent_times == LRange(pattern.items, 20)
        intervals == Intervals(recent_times)
        n == Len(intervals)
        regular == IF RegularIntervals(intervals)
                      /\ SumSeq(intervals) < 30 * TicksPerSec * n THEN 20 ELSE 0
        frequent == IF SumSeq(intervals) < 5 * TicksPerSec * n THEN 30 ELSE 0
    IN  IF fail = "temporal" THEN Part(list, 0, FALSE)
        ELSE Part(pattern, IF Len(recent_times) >= 5 THEN regular + frequent ELSE 0,
                  FALSE)

\* lines 494-509, inside its own try: HSET validation:{int(time)}:{api_key}
\* replaces the hash another call wrote under the same key
store_validation_result(validations, wallet_address, api_key, result, risk_score, t, fail) ==
    LET second == t \div TicksPerSec
        others == {v \in validations : v.second # second \/ v.api_key # api_key}
    IN  IF fail = "store_result" THEN validations
        ELSE others \cup {[second |-> second, api_key |-> api_key,
                           wallet_address |-> wallet_address,
                           result |-> result, risk_score |-> risk_score]}

\* the verdict with the first threshold written "risk_score > 8.0"
Verdict_Above8(risk_score) ==
    IF risk_score > 80 THEN "malicious"
    ELSE IF risk_score >= 50 THEN "suspicious"
    ELSE IF risk_score >= 20 THEN "suspicious"
    ELSE "valid"

\* lines 113-135
Verdict(risk_score) ==
    IF risk_score >= 80 THEN "malicious"
    ELSE IF risk_score >= 50 THEN "suspicious"
    ELSE IF risk_score >= 20 THEN "suspicious"
    ELSE "valid"

\* lines 115-135: the recommendations, named by their first entry
Recommendations(risk_score) ==
    IF risk_score >= 80 THEN "Block transaction immediately"
    ELSE IF risk_score >= 50 THEN "Require additional verification"
    ELSE IF risk_score >= 20 THEN "Monitor transaction"
    ELSE "Transaction appears safe"

\* lines 151-158: the report of the except branch
ErrorReport ==
    [result |-> "invalid", risk_score |-> 100,
     recommendations |-> "Block due to validation error"]

(* validate_transaction(wallet_address, transaction_data, api_key) at time  *)
(* t: the store it leaves, its ValidationReport, the eight contributions    *)
(* and whether a sub-check raised.  fail names the store call that raises.  *)
(* A sub-check that raises ends the call in the except branch of lines      *)
(* 149-158; what the sub-checks before it wrote stays written.              *)
validate_transaction(store, wallet_address, tx, api_key, t, fail) ==
    LET replay_key == <<api_key, create_advanced_fingerprint(tx)>>
        pattern_key == <<api_key, wallet_address>>
        basic == validate_basic_structure(tx)
        address == validate_addresses(tx)
        amount == validate_amounts(store.wallet_avg[wallet_address], tx, fail)
        replay == detect_replay_attack(store.replay[replay_key], t, fail)
        mev == detect_mev_attack(store.mev_timing[wallet_address], tx, t, fail)
        flash == detect_flash_loan_attack(store.flash_sequence[wallet_address],
                                          store.wallet_balance[wallet_address], tx, t, fail)
        contract == validate_contract_interaction(store.malicious_contracts, tx, fail)
        temporal == analyze_temporal_patterns(store.temporal[pattern_key], t, fail)
        parts == <<basic.risk, address.risk, amount.risk, replay.risk, mev.risk,
                   flash.risk, contract.risk, temporal.risk>>
        risk_score == SumSeq(parts)
        result == Verdict(risk_score)
        \* the sub-checks 3 to 6 ran; all eight ran
        ran6 == ~basic.raised /\ ~amount.raised
        ran8 == ran6 /\ ~contract.raised
    IN  [store |->
            [wallet_avg |-> IF ran6
                            THEN [store.wallet_avg EXCEPT ![wallet_address] = amount.value]
                            ELSE store.wallet_avg,
             wallet_balance |-> store.wallet_balance,
             replay |-> IF ran6 THEN [store.replay EXCEPT ![replay_key] = replay.value]
                        ELSE store.replay,
             mev_timing |-> IF ran6
                            THEN [store.mev_timing EXCEPT ![wallet_address] = mev.value]
                            ELSE store.mev_timing,
             flash_sequence |-> IF ran6
                                THEN [store.flash_sequence EXCEPT
                                         ![wallet_address] = flash.value]
                                ELSE store.flash_sequence,
             temporal |-> IF ran8
                          THEN [store.temporal EXCEPT ![pattern_key] = temporal.value]
                          ELSE store.temporal,
             malicious_contracts |-> store.malicious_contracts,
             validations |-> IF ran8
                             THEN store_validation_result(store.validations,
                                      wallet_address, api_key, result, risk_score, t, fail)
                             ELSE store.validations],
         report |-> IF ran8
                    THEN [result |-> result, risk_score |-> risk_score,
                          recommendations |-> Recommendations(risk_score)]
                    ELSE ErrorReport,
         parts |-> IF ran8 THEN parts ELSE <<>>,
         raised |-> ~ran8]

\* line 519: validation_keys[-100:]
profile_window == 100

\* lines 516-519: KEYS validation:*:* returns the keys in no defined order, so
\* the last 100 of them are any 100 of them
ConsideredKeys(validations) ==
    IF Cardinality(validations) <= profile_window THEN {validations}
    ELSE {c \in SUBSET validations : Cardinality(c) = profile_window}

RECURSIVE SumRisk(_)
SumRisk(records) ==
    IF records = {} THEN 0
    ELSE LET v == CHOOSE x \in records : TRUE
         IN  v.risk_score + SumRisk(records \ {v})

\* lines 536-544, with avg_risk = total / count
RiskLevel(total, count, malicious_count) ==
    IF total >= 70 * count \/ malicious_count > 0 THEN "high"
    ELSE IF total >= 40 * count THEN "medium"
    ELSE IF total >= 20 * count THEN "low"
    ELSE "minimal"

(* get_wallet_risk_profile(wallet_address) on the stored validation hashes, *)
(* of which it considers the set considered (lines 511-557); the validation *)
(* keys live for 30 days.  last_validation, the latest timestamp, is left   *)
(* out.                                                                     *)
get_wallet_risk_profile(considered, wallet_address) ==
    LET wallet_validations == {v \in considered : v.wallet_address = wallet_address}
        validation_count == Cardinality(wallet_validations)
        malicious_count ==
            Cardinality({v \in wallet_validations : v.result = "malicious"})
    IN  IF wallet_validations = {}
        THEN [risk_level |-> "unknown", validation_count |-> 0, malicious_count |-> None]
        ELSE [risk_level |-> RiskLevel(SumRisk(wallet_validations), validation_count,
                                       malicious_count),
              validation_count |-> validation_count,
              malicious_count |-> malicious_count]

(***************************************************************************)
(* ThreatDetector (threat_detector.py)                                      *)
(* Its transaction_data has the keys to, amount, note and type.  An alert   *)
(* is kept as its type, its level, the api_key it carries ("" for none)     *)
(* and its timestamp.                                                       *)
(***************************************************************************)
\* lines 17-21: ThreatLevel
MEDIUM == 5
HIGH == 8

ThreatAlert(threat_type, threat_level, api_key, t) ==
    [threat_type |-> threat_type, threat_level |-> threat_level,
     api_key |-> api_key, timestamp |-> t]

\* what a check returns: the value it leaves under its key and its alert, if any
Found(value, alerts) == [value |-> value, alerts |-> alerts]

\* lines 264-275: md5 of the four fields, taken to be injective
create_transaction_fingerprint(tx) == <<tx.to, tx.amount, tx.note, tx.type>>

SeenRecently_WhileStored(exists, time_diff) == exists

\* lines 98-103: the key exists and holds a time less than 5 minutes old
SeenRecently(exists, time_diff) == exists /\ time_diff < 300 * TicksPerSec

\* lines 90-123, on tx_fingerprint:{api_key}:{fingerprint}
td_detect_replay_attack(seen, api_key, t, fail) ==
    LET exists == seen.present /\ t < seen.expire_at
        time_diff == t - seen.last_seen
    IN  IF fail = "replay" THEN Found(seen, <<>>)
        ELSE IF SeenRecently(exists, time_diff)
        THEN Found(seen, <<ThreatAlert("replay_attack", HIGH, api_key, t)>>)
        ELSE Found([present |-> TRUE, last_seen |-> t,
                    expire_at |-> t + 3600 * TicksPerSec], <<>>)

\* lines 125-155, on recent_tx:{wallet}; 1M ALGO in microAlgos
detect_flash_loan_pattern(counter, tx, t, fail) ==
    LET counted == Expire(Incr(counter, t), t, 60)
    IN  IF tx.amount > 1000000 * Algo
        THEN IF fail = "flash" THEN Found(counter, <<>>)
             ELSE Found(counted,
                        IF counted.count > 3
                        THEN <<ThreatAlert("flash_loan_exploit", HIGH, "", t)>>
                        ELSE <<>>)
        ELSE Found(counter, <<>>)

\* lines 277-295 on avg_amount/avg_count of the wallet, kept as (total, count);
\* the keys live for a week
update_amount_average(avg, amount) ==
    [present |-> TRUE, total |-> avg.total + amount, count |-> avg.count + 1]

\* lines 157-190
detect_anomalous_amount(avg, tx, t, fail) ==
    IF fail = "amount" THEN Found(avg, <<>>)
    ELSE IF avg.present /\ tx.amount * avg.count > avg.total * 100
                       /\ tx.amount > 10 * Algo
    THEN Found(avg, <<ThreatAlert("anomalous_amount", MEDIUM, "", t)>>)
    ELSE Found(update_amount_average(avg, tx.amount), <<>>)

\* lines 192-224, on rate_ip:{ip} and rate_key:{api_key}
detect_rate_abuse(counters, api_key, t, fail) ==
    LET ip_count == Expire(Incr(counters.ip, t), t, 60)
        key_count == Expire(Incr(counters.key, t), t, 60)
    IN  IF fail = "rate" THEN Found(counters, <<>>)
        ELSE Found([ip |-> ip_count, key |-> key_count],
                   IF ip_count.count > 300
                   THEN <<ThreatAlert("rate_limit_abuse", MEDIUM, api_key, t)>>
                   ELSE <<>>)

\* lines 226-262, on mev_pattern:{wallet}: the timestamps are read before the
\* current one is pushed
detect_mev_pattern(list, t, fail) ==
    LET tx_timestamps == IF ListLive(list, t) THEN list.items ELSE <<>>
        recent_count ==
            Cardinality({i \in DOMAIN tx_timestamps :
                            t - tx_timestamps[i] < 30 * TicksPerSec})
    IN  IF fail = "mev" THEN Found(list, <<>>)
        ELSE Found(LPushExpire(list, t, t, 300),
                   IF recent_count >= 3
                   THEN <<ThreatAlert("mev_manipulation", MEDIUM, "", t)>>
                   ELSE <<>>)

\* lines 297-317: HSET threat:{int(timestamp)}:{api_key} replaces the hash
\* another alert wrote under the same key; the keys live for a week
log_threat(threats, threat, fail) ==
    LET second == threat.timestamp \div TicksPerSec
        others == {x \in threats : x.second # second \/ x.api_key # threat.api_key}
    IN  IF fail = "log" THEN threats
        ELSE others \cup {[second |-> second, api_key |-> threat.api_key,
                           type |-> threat.threat_type,
                           level |-> threat.threat_level]}

RECURSIVE LogThreats(_, _, _)
LogThreats(threats, alerts, fail) ==
    IF alerts = <<>> THEN threats
    ELSE LogThreats(log_threat(threats, Head(alerts), fail), Tail(alerts), fail)

(* analyze_transaction_request(api_key, wallet_address, transaction_data,   *)
(* ip_address) at time t (lines 50-88): the store it leaves and the alerts  *)
(* it returns.  fail names the check whose first store call raises; each    *)
(* check catches its own errors.  ip_address "" is none.                    *)
analyze_transaction_request(store, api_key, wallet_address, tx, ip_address, t, fail) ==
    LET replay_key == <<api_key, create_transaction_fingerprint(tx)>>
        replay == td_detect_replay_attack(store.tx_fingerprint[replay_key], api_key,
                                          t, fail)
        flash == detect_flash_loan_pattern(store.recent_tx[wallet_address], tx, t, fail)
        amount == detect_anomalous_amount(store.avg_amount[wallet_address], tx, t, fail)
        rate == detect_rate_abuse([ip |-> store.rate_ip[ip_address],
                                   key |-> store.rate_key[api_key]], api_key, t, fail)
        mev == detect_mev_pattern(store.mev_pattern[wallet_address], t, fail)
        threats == replay.alerts \o flash.alerts \o amount.alerts
                      \o (IF ip_address # "" THEN rate.alerts ELSE <<>>) \o mev.alerts
    IN  [store |->
            [tx_fingerprint |-> [store.tx_fingerprint EXCEPT ![replay_key] = replay.value],
             recent_tx |-> [store.recent_tx EXCEPT ![wallet_address] = flash.value],
             avg_amount |-> [store.avg_amount EXCEPT ![wallet_address] = amount.value],
             rate_ip |-> IF ip_address # ""
                         THEN [store.rate_ip EXCEPT ![ip_address] = rate.value.ip]
                         ELSE store.rate_ip,
             rate_key |-> IF ip_address # ""
                          THEN [store.rate_key EXCEPT ![api_key] = rate.value.key]
                          ELSE store.rate_key,
             mev_pattern |-> [store.mev_pattern EXCEPT ![wallet_address] = mev.value],
             threats |-> LogThreats(store.threats, threats, fail)],
         threats |-> threats]

\* the threat types, as get_threat_summary groups them
ThreatTypes ==
    {"replay_attack", "flash_loan_exploit", "anomalous_amount", "rate_limit_abuse",
     "mev_manipulation"}

(* get_threat_summary(api_key, hours) at time t (lines 319-350): KEYS       *)
(* threat:*:{api_key}, those whose timestamp is not before the start of the *)
(* lookback window, counted by type.                                        *)
get_threat_summary(threats, api_key, hours, t) ==
    LET start_time == t - hours * 3600 * TicksPerSec
        counted == {x \in threats : /\ x.api_key = api_key
                                    /\ x.second * TicksPerSec >= start_time}
    IN  [total_threats |-> Cardinality(counted),
         threats_by_type |->
             [type \in ThreatTypes |-> Cardinality({x \in counted : x.type = type})],
         time_period_hours |-> hours]

(***************************************************************************)
(* Web3SecurityMiddleware.validate_transaction_request (middleware.py)      *)
(***************************************************************************)
\* the test of line 148 widened to the verdict SUSPICIOUS
Blocks_AlsoSuspicious(result) == result \in {"malicious", "suspicious"}

\* line 148: if validation_report.result == ValidationResult.MALICIOUS
Blocks(result) == result = "malicious"

\* lines 132 and 172: {"validation_skipped": True}, no report
NoReport == [result |-> "none", risk_score |-> 0, recommendations |-> ""]

(* validate_transaction_request for a request whose body names             *)
(* wallet_address ("" for none) and carries the transaction tx (has_tx):    *)
(* the store it leaves, the status code (403 for the HTTPException, 200     *)
(* when a dict is returned) and the report, if a validation ran.            *)
validate_transaction_request(store, wallet_address, has_tx, tx, api_key_id, t, fail) ==
    LET out == validate_transaction(store, wallet_address, tx, api_key_id, t, fail)
        skipped == [store |-> store, status_code |-> 200, validated |-> FALSE,
                    report |-> NoReport, parts |-> <<>>, raised |-> FALSE]
    IN  IF wallet_address = "" THEN skipped
        ELSE IF ~has_tx THEN skipped
        ELSE [store |-> out.store,
              status_code |-> IF Blocks(out.report.result) THEN 403 ELSE 200,
              validated |-> TRUE, report |-> out.report, parts |-> out.parts,
              raised |-> out.raised]

(***************************************************************************)
(* The transactions, wallets and keys the validator is called with          *)
(***************************************************************************)
Wallets == {"w1", "w2"}
ValidatorKeys == {ApiKey("u1", 0, "free")}

\* a payment of nothing between two valid addresses at the minimum fee
NoOp ==
    [type |-> "pay", sender |-> "ADDR_A", receiver |-> "ADDR_B", amount |-> 0,
     fee |-> 1000, application_id |-> 0, application_args |-> "plain",
     missing |-> {"application_id", "application_args"}, malformed |-> {}]

AppCall(application_id, application_args) ==
    [NoOp EXCEPT !.type = "appl", !.application_id = application_id,
                 !.application_args = application_args, !.missing = {}]

\* 1.5 ALGO, 101 ALGO and 100001 ALGO
Payments == {[NoOp EXCEPT !.amount = a] : a \in {3, 202, 200002}}

Transactions ==
    {NoOp,
     [NoOp EXCEPT !.fee = 500],
     [NoOp EXCEPT !.fee = 20000],
     [NoOp EXCEPT !.type = "bogus"],
     [NoOp EXCEPT !.sender = "bad"],
     [NoOp EXCEPT !.sender = "bad", !.type = "bogus"],
     [NoOp EXCEPT !.receiver = "bad"],
     [NoOp EXCEPT !.missing = @ \cup required_fields],
     [NoOp EXCEPT !.amount = 3, !.malformed = {"amount"}],
     AppCall(7, "plain"), AppCall(7, "suspicious"), AppCall(8, "plain"),
     [AppCall(7, "plain") EXCEPT !.malformed = {"fee"}]}
        \cup Payments

EmptyStore ==
    [wallet_avg |-> [w \in Wallets |-> NoAverage],
     wallet_balance |-> [w \in Wallets |-> None],
     replay |-> [k \in ValidatorKeys \X Transactions |-> NoReplay],
     mev_timing |-> [w \in Wallets |-> NoList],
     flash_sequence |-> [w \in Wallets |-> NoList],
     temporal |-> [k \in ValidatorKeys \X Wallets |-> NoList],
     malicious_contracts |-> {},
     validations |-> {}]

\* the requests the threat detector is given: two API keys, one IP, a payment
\* of 1.5 ALGO and one of 1000001 ALGO
DetectorKeys == {"k1", "k2"}
DetectorIPs == {"ip1"}
SmallTx == [to |-> "ADDR_B", amount |-> 3, note |-> "", type |-> "pay"]
LargeTx == [SmallTx EXCEPT !.amount = 1000001 * Algo]
DetectorTransactions == {SmallTx, LargeTx}

EmptyDetector ==
    [tx_fingerprint |->
         [k \in DetectorKeys
                \X {create_transaction_fingerprint(tx) : tx \in DetectorTransactions}
             |-> NoReplay],
     recent_tx |-> [w \in Wallets |-> NoCounter],
     avg_amount |-> [w \in Wallets |-> NoAverage],
     rate_ip |-> [ip \in DetectorIPs |-> NoCounter],
     rate_key |-> [k \in DetectorKeys |-> NoCounter],
     mev_pattern |-> [w \in Wallets |-> NoList],
     threats |-> {}]

(***************************************************************************)
(* The rate limiter on its own: check_rate_limit called directly, with any  *)
(* tier and threat score, on a clock that never runs backwards.             *)
(***************************************************************************)
Identifiers == {"key1"}
Endpoints == {"/credit"}
IPs == {"ip1"}
BucketKeys == {BucketKey("api_key", i, e) : i \in Identifiers, e \in Endpoints \cup {""}}

\* threat scores, in tenths: 0.0, 5.0, 8.0 and 9.0
ThreatScores == {0, 50, 80, 90}

NoRequests == [n |-> 0, first |-> None, ddos_blocked |-> FALSE]

InitRateLimiter ==
    /\ now = 0
    /\ buckets = [k \in BucketKeys |-> NoBucket]
    /\ ddos = [ip \in IPs |-> NoDdos]
    /\ ddos_events = {}
    /\ ret = [op |-> "init"]
    /\ allowLog = [k \in BucketKeys |-> <<>>]
    /\ runLimits = [k \in BucketKeys |-> default_limits("free")]
    /\ nAllowed = [k \in BucketKeys |-> 0]
    /\ reqLog = NoRequests
    /\ tvStore = EmptyStore
    /\ tdStore = EmptyDetector
    /\ procs = NoCalls

\* time passes
Tick ==
    /\ now < MaxTicks
    /\ now' = now + 1
    /\ UNCHANGED <<buckets, ddos, ddos_events, keyVars, ret, allowLog, runLimits,
                   nAllowed, reqLog, tvStore, tdStore, procs>>

\* the request of a check is served from the bucket: a token is taken
Served(key, limits, fail) ==
    fail \in {"none", "expire"} /\ CanServe(RefilledTokens(buckets[key], limits, now))

\* one call of check_rate_limit, with the history of the served requests
RateLimitStep(identifier, tier, endpoint, threat_score, fail) ==
    LET out == check_rate_limit(buckets, identifier, "api_key", tier, endpoint,
                                threat_score, now, fail)
        key == out.key
        fresh == ~Live(buckets[key], now)
        wrote == fail \in {"none", "expire"}
        served == wrote /\ CanServe(RefilledTokens(buckets[key], out.limits, now))
    IN  /\ buckets' = out.buckets
        /\ ret' = [op |-> "check_rate_limit", key |-> key, limits |-> out.limits,
                   fail |-> fail, result |-> out.result]
        /\ allowLog' = [allowLog EXCEPT ![key] =
                           IF wrote
                           THEN NextAllowLog(IF fresh THEN <<>> ELSE allowLog[key],
                                             runLimits[key], out.limits, now, served)
                           ELSE allowLog[key]]
        /\ runLimits' = [runLimits EXCEPT ![key] = IF wrote THEN out.limits ELSE runLimits[key]]

CheckRateLimit(identifier, tier, endpoint, threat_score, fail) ==
    /\ RateLimitStep(identifier, tier, endpoint, threat_score, fail)
    /\ UNCHANGED <<now, ddos, ddos_events, keyVars, nAllowed, reqLog, tvStore,
                   tdStore, procs>>

\* the (tier, threat score) pairs the checks are made with: burst capacities
\* 10, 5, 1, 1 and 5, rates 60, 30, 11, 6 and 30 requests per minute
TierAndThreat == {<<"free", 0>>, <<"free", 50>>, <<"free", 80>>, <<"free", 90>>, <<"pro", 90>>}

\* the keys of the model: those one user can be given in the first seconds, and a
\* malformed token
Users == {"u1"}
KeyTiers == {"free"}
MaxKeySecs == 0
KeySpace == {ApiKey(u, sec, tier) : u \in Users, sec \in 0..MaxKeySecs, tier \in KeyTiers}
                \cup {MalformedKey}

NoHist == [ever_suspended |-> FALSE, last_write |-> "none"]

InitKeys ==
    /\ api_keys = [k \in KeySpace |-> NoKey]
    /\ keyHist = [k \in KeySpace |-> NoHist]

Init ==
    /\ InitRateLimiter
    /\ InitKeys
    /\ whitelist = [k \in KeySpace |-> NoWhitelist]

Next ==
    \/ Tick
    \/ \E in \in TierAndThreat : CheckRateLimit("key1", in[1], "", in[2], "none")

Spec == Init /\ [][Next]_vars


(* C1: after any sequence of check_rate_limit calls on a bucket (any tier,  *)
(* any threat score, a clock that never runs backwards) the token count     *)
(* persisted for the bucket is never negative and never above the burst     *)
(* capacity of the check that wrote it, and the bucket never serves more    *)
(* than burst_capacity requests within a window shorter than the refill     *)
(* period, the 60 / requests_per_minute seconds one token takes to come     *)
(* back (allowLog holds the requests served less than one such period ago   *)
(* by checks made with the limits runLimits).                               *)
C1_TokensWithinCapacity ==
    \A k \in BucketKeys :
        buckets[k].present =>
            /\ buckets[k].tokens >= 0
            /\ buckets[k].tokens <= runLimits[k].burst_capacity * TokenUnit
            /\ Len(allowLog[k]) <= runLimits[k].burst_capacity

\* a full burst of 10 has been served at one instant and the next check is refused
C1_Witness ==
    \E k \in BucketKeys :
        /\ ret.op = "check_rate_limit" /\ ret.key = k
        /\ ret.result.action = "block"
        /\ runLimits[k].burst_capacity = 10
        /\ Len(allowLog[k]) = 10
        /\ buckets[k].tokens = 0


(***************************************************************************)
(* One free-tier identifier with threat score 0, from a fresh bucket,       *)
(* during the 60 seconds that follow (the clock stays below 60 s).          *)
(***************************************************************************)
WindowTicks == 60 * TicksPerSec

\* the waits between two requests: none, one tick, one second, ten seconds
Gaps == {0, 1, TicksPerSec, 10 * TicksPerSec}

\* the identifier waits d ticks and makes its next request
CheckFreeTier(d) ==
    LET key == BucketKey("api_key", "key1", "")
        limits == adjust_limits_for_threat(default_limits("free"), 0)
        t == now + d
        out == check_rate_limit(buckets, "key1", "api_key", "free", "", 0, t, "none")
        served == CanServe(RefilledTokens(buckets[key], limits, t))
    IN  /\ t < WindowTicks
        /\ now' = t
        /\ buckets' = out.buckets
        /\ ret' = [op |-> "check_rate_limit", key |-> key, limits |-> out.limits,
                   fail |-> "none", result |-> out.result]
        /\ nAllowed' = [nAllowed EXCEPT ![key] =
                           (IF Live(buckets[key], t) THEN nAllowed[key] ELSE 0)
                           + (IF served THEN 1 ELSE 0)]
        /\ UNCHANGED <<ddos, ddos_events, keyVars, allowLog, runLimits, reqLog, tvStore,
                       tdStore, procs>>

NextFree == \E d \in Gaps : CheckFreeTier(d)

SpecFree == Init /\ [][NextFree]_vars

FreeKey == BucketKey("api_key", "key1", "")

(* C2, as claimed: with threat score 0 a free-tier identifier is allowed    *)
(* exactly 60 requests in a 60-second window that starts from a fresh       *)
(* bucket, so never a 61st.                                                 *)
C2_AtMostSixtyServed == nAllowed[FreeKey] <= 60

(* C2, amended: from a fresh bucket the identifier is served at most        *)
(* 10 + t requests in the first t seconds (the burst of 10, then one token  *)
(* per second: up to 69 within 60 seconds); a check that is refused          *)
(* (THROTTLE or BLOCK) finds less than one token after the refill, reports  *)
(* remaining_requests = 0 and a positive retry_after.                       *)
C2_ServedWithinBurstPlusRefill ==
    /\ nAllowed[FreeKey] * TokenUnit <= 10 * TokenUnit + now * 60
    /\ nAllowed[FreeKey] <= 69
    /\ ret.op = "check_rate_limit" =>
          /\ ret.result.action \in {"allow", "throttle", "block"}
          /\ (ret.result.action # "allow") => (/\ buckets[FreeKey].tokens < TokenUnit
                                               /\ ret.result.remaining_requests = 0
                                               /\ ret.result.retry_after > 0)

\* 69 requests have been served in less than 60 seconds and the 70th is refused
C2_Witness ==
    /\ nAllowed[FreeKey] = 69
    /\ ret.op = "check_rate_limit" /\ ret.result.action # "allow"

(* C20: when check_rate_limit denies a request (THROTTLE or BLOCK), its     *)
(* retry_after is the time in seconds for the bucket to regain one full     *)
(* token at its refill rate, (1 - tokens) * 60 / requests_per_minute,       *)
(* rounded to a whole second (down or up).                                  *)
C20_RetryAfterIsTimeToOneToken ==
    (ret.op = "check_rate_limit" /\ ret.result.action \in {"throttle", "block"})
        => LET tokens == buckets[ret.key].tokens
               \* tokens regained per second, in the unit of tokens
               rate == TicksPerSec * ret.limits.requests_per_minute
           IN  /\ ret.result.retry_after >= (TokenUnit - tokens) \div rate
               /\ ret.result.retry_after <= CeilDiv(TokenUnit - tokens, rate)

(***************************************************************************)
(* The API key manager on its own: keys are generated, validated and        *)
(* scored in any order.                                                     *)
(***************************************************************************)
MaxUsage == 1

\* the threat scores passed to update_threat_score, in tenths: 0.0, 8.0 and 9.0
UpdateScores == {0, 80, 90}

ClientIPs == {"", "ip1", "ip2"}

\* store failures tried here: none, before any write, between the two writes,
\* after both writes
KeyFailPoints == {"none", "hgetall", "hset", "smembers"}

InitKeyManager ==
    /\ InitRateLimiter
    /\ InitKeys
    /\ \E ips \in {NoWhitelist, {"ip1"}} : whitelist = [k \in KeySpace |-> ips]

\* the key manager reads the clock in whole seconds, int(time.time())
TickKeys ==
    /\ now \div TicksPerSec < MaxKeySecs + 1
    /\ now' = now + TicksPerSec
    /\ UNCHANGED <<buckets, ddos, ddos_events, keyVars, ret, allowLog, runLimits,
                   nAllowed, reqLog, tvStore, tdStore, procs>>

GenerateApiKey(user_id, tier) ==
    LET out == generate_api_key(api_keys, user_id, tier, now)
    IN  /\ now \div TicksPerSec <= MaxKeySecs
        /\ api_keys' = out.keys
        /\ keyHist' = [keyHist EXCEPT ![out.api_key].last_write = "generate"]
        /\ ret' = [op |-> "generate_api_key", api_key |-> out.api_key]
        /\ UNCHANGED <<now, buckets, ddos, ddos_events, whitelist, allowLog, runLimits,
                       nAllowed, reqLog, tvStore, tdStore, procs>>

UpdateThreatScore(api_key, threat_score) ==
    LET keys == update_threat_score(api_keys, api_key, threat_score)
    IN  /\ api_keys' = keys
        \* ever_suspended: a key that had been generated became suspended
        /\ keyHist' = [keyHist EXCEPT ![api_key] =
                          [ever_suspended |-> @.ever_suspended
                                                \/ (/\ keys[api_key].status = "suspended"
                                                    /\ keys[api_key].created_at # None),
                           last_write |-> "update"]]
        /\ ret' = [op |-> "update_threat_score", api_key |-> api_key,
                   threat_score |-> threat_score]
        /\ UNCHANGED <<now, buckets, ddos, ddos_events, whitelist, allowLog, runLimits,
                       nAllowed, reqLog, tvStore, tdStore, procs>>

ValidateApiKey(api_key, ip_address, fail) ==
    LET out == validate_api_key(api_keys, whitelist, api_key, ip_address, now, fail)
    IN  /\ api_keys[api_key].usage_count < MaxUsage
        /\ api_keys' = out.keys
        /\ ret' = [op |-> "validate_api_key", api_key |-> api_key,
                   failed |-> fail # "none", context |-> out.context,
                   \* history: what the call found
                   found_score |-> api_keys[api_key].threat_score,
                   generated |-> api_keys[api_key].created_at # None,
                   hist |-> keyHist[api_key]]
        /\ UNCHANGED <<now, buckets, ddos, ddos_events, whitelist, keyHist, allowLog,
                       runLimits, nAllowed, reqLog, tvStore, tdStore, procs>>

NextKeys ==
    \/ TickKeys
    \/ \E u \in Users, tier \in KeyTiers : GenerateApiKey(u, tier)
    \/ \E k \in KeySpace \ {MalformedKey}, score \in UpdateScores :
           UpdateThreatScore(k, score)
    \/ \E k \in KeySpace \ {MalformedKey}, ip \in ClientIPs, fail \in KeyFailPoints :
           ValidateApiKey(k, ip, fail)
    \/ ValidateApiKey(MalformedKey, "ip1", "none")

SpecKeys == InitKeyManager /\ [][NextKeys]_vars

(* C3: after update_threat_score(key, s) with s > 8.0 the next              *)
(* validate_api_key call for that key (no other write to the key's record   *)
(* in between) returns an invalid context, whatever the key's status was    *)
(* before the update.                                                       *)
C3_SuspendedKeyIsRejected ==
    (/\ ret.op = "validate_api_key"
     /\ ret.hist.last_write = "update"
     /\ ret.found_score > 80)
        => ~ret.context.is_valid

\* a generated, active key was scored 9.0 and the validation that follows fails
C3_Witness ==
    /\ ret.op = "validate_api_key"
    /\ ret.hist.last_write = "update"
    /\ ret.found_score = 90
    /\ ret.generated
    /\ ~ret.failed
    /\ ~ret.context.is_valid

(* C4: suspension is irreversible: once a key's status has become           *)
(* suspended, no later sequence of generate_api_key, validate_api_key and   *)
(* update_threat_score calls makes validate_api_key return a valid context  *)
(* for it.                                                                  *)
C4_SuspensionIsIrreversible ==
    (ret.op = "validate_api_key" /\ ret.hist.ever_suspended) => ~ret.context.is_valid

(* C18: validate_api_key increments the usage counter and sets last-used    *)
(* only on success: a call that rejects (malformed token, unknown key,      *)
(* non-active status, client IP absent from a configured allowlist), with   *)
(* the store working, leaves the stored record of the key unchanged.        *)
C18_RejectionLeavesRecord ==
    [][(/\ ret'.op = "validate_api_key"
        /\ ~ret'.failed
        /\ ~ret'.context.is_valid)
         => api_keys' = api_keys]_vars

(***************************************************************************)
(* Web3SecurityMiddleware.authenticate_request (middleware.py)              *)
(***************************************************************************)
\* the test written as "if rate_result.action != RateLimitAction.ALLOW"
Rejects_NotAllow(action) == action # "allow"

\* the results of the two checks ignored
Rejects_Never(action) == FALSE

\* lines 68 and 81: if <result>.action == RateLimitAction.BLOCK
Rejects(action) == action = "block"

NoHeaders == [remaining |-> None, reset |-> None, retry_after |-> None]

\* lines 36-44: a request with neither an Authorization: Bearer nor an X-API-Key
\* header
NoApiKey == <<"", 0, "">>

(* authenticate_request for a request that carries api_key, comes from      *)
(* client_ip and asks for path, at time t: the stores it leaves, the status *)
(* code of the response (200 when the SecurityContext is returned), the     *)
(* check that raised and the headers of the HTTPException.  fail names, for *)
(* each of the three callees, the store call that raises ("none" for none). *)
authenticate_request(keys, wl, bs, d, events, api_key, client_ip, path, t, fail) ==
    LET auth == validate_api_key(keys, wl, api_key, client_ip, t, fail[1])
        security_context == auth.context
        rate == check_rate_limit(bs, api_key, "api_key", security_context.tier, path,
                                 security_context.threat_score, t, fail[2])
        rate_result == rate.result
        dd == check_ddos_protection(d[client_ip], events, client_ip, t, fail[3])
        ddos_result == dd.result
    IN  IF api_key = NoApiKey
        THEN [keys |-> keys, buckets |-> bs, ddos |-> d, events |-> events,
              status_code |-> 401, raised_by |-> "missing_key", action |-> "none",
              headers |-> NoHeaders]
        ELSE IF ~security_context.is_valid
        THEN [keys |-> auth.keys, buckets |-> bs, ddos |-> d, events |-> events,
              status_code |-> 401, raised_by |-> "api_key", action |-> "none",
              headers |-> NoHeaders]
        ELSE IF Rejects(rate_result.action)
        THEN [keys |-> auth.keys, buckets |-> rate.buckets, ddos |-> d, events |-> events,
              status_code |-> 429, raised_by |-> "rate_limit",
              action |-> rate_result.action,
              headers |-> [remaining |-> rate_result.remaining_requests,
                           reset |-> rate_result.reset_time,
                           retry_after |-> rate_result.retry_after]]
        ELSE IF Rejects(ddos_result.action)
        THEN [keys |-> auth.keys, buckets |-> rate.buckets,
              ddos |-> [d EXCEPT ![client_ip] = dd.ddos], events |-> dd.events,
              status_code |-> 429, raised_by |-> "ddos", action |-> rate_result.action,
              headers |-> [NoHeaders EXCEPT !.retry_after = ddos_result.retry_after]]
        ELSE [keys |-> auth.keys, buckets |-> rate.buckets,
              ddos |-> [d EXCEPT ![client_ip] = dd.ddos], events |-> dd.events,
              status_code |-> 200, raised_by |-> "", action |-> rate_result.action,
              headers |-> NoHeaders]

\* lines 25-30: the attributes __init__ gives the middleware
MiddlewareAttributes ==
    {"api_manager", "rate_limiter", "threat_detector", "transaction_validator",
     "security_bearer"}

(* log_request for the SecurityContext of key api_key with threat_score     *)
(* (lines 210-243): the key hashes it leaves, whether the request log was   *)
(* written and whether update_threat_score was called.  self.redis.hset at  *)
(* line 233 reads an attribute of the middleware; an attribute that is not  *)
(* there raises AttributeError, and the except of line 242 ends the call,   *)
(* as it does when the store raises at fail.                                *)
log_request(keys, api_key, threat_score, fail) ==
    IF "redis" \notin MiddlewareAttributes \/ fail = "hset"
    THEN [keys |-> keys, logged |-> FALSE, updated |-> FALSE]
    ELSE IF fail = "expire"
    THEN [keys |-> keys, logged |-> TRUE, updated |-> FALSE]
    ELSE [keys |-> update_threat_score(keys, api_key, threat_score),
          logged |-> TRUE, updated |-> TRUE]

(***************************************************************************)
(* End to end: one client sends requests with a key freshly generated for   *)
(* tier "free", all from one IP and to one path; the clock starts at its    *)
(* first request.                                                           *)
(***************************************************************************)
MaxRequests == 61
MaxE2ETicks == 6

E2EGaps == {0, 1, TicksPerSec}

E2EKey == ApiKey("u1", 0, "free")

E2EBucketKeys == {BucketKey("api_key", k, p) : k \in KeySpace, p \in Endpoints}

NoFailure == <<"none", "none", "none">>

InitE2E ==
    /\ now = 0
    /\ api_keys = generate_api_key([k \in KeySpace |-> NoKey], "u1", "free", 0).keys
    /\ keyHist = [k \in KeySpace |-> NoHist]
    /\ whitelist = [k \in KeySpace |-> NoWhitelist]
    /\ buckets = [k \in E2EBucketKeys |-> NoBucket]
    /\ ddos = [ip \in IPs |-> NoDdos]
    /\ ddos_events = {}
    /\ ret = [op |-> "init"]
    /\ allowLog = [k \in BucketKeys |-> <<>>]
    /\ runLimits = [k \in BucketKeys |-> default_limits("free")]
    /\ nAllowed = [k \in BucketKeys |-> 0]
    /\ reqLog = NoRequests
    /\ tvStore = EmptyStore
    /\ tdStore = EmptyDetector
    /\ procs = NoCalls

\* the client waits gap ticks (none before its first request) and sends a request
AuthenticateRequest(gap, api_key, client_ip, path) ==
    LET t == now + gap
        out == authenticate_request(api_keys, whitelist, buckets, ddos, ddos_events,
                                    api_key, client_ip, path, t, NoFailure)
    IN  /\ reqLog.n < MaxRequests
        /\ t <= MaxE2ETicks
        /\ reqLog.n = 0 => gap = 0
        /\ now' = t
        /\ api_keys' = out.keys
        /\ buckets' = out.buckets
        /\ ddos' = out.ddos
        /\ ddos_events' = out.events
        /\ reqLog' = [n |-> reqLog.n + 1,
                      first |-> IF reqLog.n = 0 THEN t ELSE reqLog.first,
                      ddos_blocked |-> reqLog.ddos_blocked \/ out.raised_by = "ddos"]
        /\ ret' = [op |-> "authenticate_request", n |-> reqLog.n + 1,
                   status_code |-> out.status_code, raised_by |-> out.raised_by,
                   action |-> out.action, headers |-> out.headers]
        /\ UNCHANGED <<whitelist, keyHist, allowLog, runLimits, nAllowed, tvStore,
                       tdStore, procs>>

NextE2E == \E gap \in E2EGaps : AuthenticateRequest(gap, E2EKey, "ip1", "/credit")

SpecE2E == InitE2E /\ [][NextE2E]_vars

\* the request just answered is the n-th, sent less than secs after the first
NthWithin(n, secs) ==
    /\ ret.op = "authenticate_request"
    /\ ret.n = n
    /\ now - reqLog.first < secs * TicksPerSec

(* C5 as stated: the 61st request within the same minute for a fresh free   *)
(* key is answered 429 with retry_after > 0 and remaining_requests = 0.     *)
C5_SixtyFirstRejected ==
    NthWithin(61, 60)
        => /\ ret.status_code = 429
           /\ ret.headers.retry_after # None /\ ret.headers.retry_after > 0
           /\ ret.raised_by = "rate_limit" => ret.headers.remaining = 0

(* C5: through authenticate_request, a request for a fresh free key is      *)
(* rejected by the rate limit (429) exactly when check_rate_limit answers   *)
(* BLOCK, that is when the bucket holds at most 0.1 token after the refill; *)
(* the response then has retry_after > 0 and remaining_requests = 0.  While *)
(* no time passes after the first request the first 10 requests are         *)
(* admitted and every later one, the 61st included, is rejected so; a       *)
(* request that finds more than 0.1 token (THROTTLE) is not rejected by the *)
(* rate limit.                                                              *)
C5_RejectedWhenBucketBlocks ==
    ret.op = "authenticate_request" =>
        LET b == buckets[BucketKey("api_key", E2EKey, "/credit")]
        IN  /\ ret.raised_by = "rate_limit" <=> ret.action = "block"
            /\ ret.raised_by = "rate_limit"
                 => /\ ret.status_code = 429
                    /\ ret.headers.retry_after > 0
                    /\ ret.headers.remaining = 0
                    /\ b.tokens * 10 <= TokenUnit
            /\ ret.action = "throttle"
                 => /\ ret.raised_by # "rate_limit"
                    /\ b.tokens * 10 > TokenUnit /\ b.tokens < TokenUnit
            /\ now = reqLog.first
                 => IF ret.n <= 10 THEN ret.status_code = 200
                    ELSE ret.raised_by = "rate_limit"

\* the 61st request, sent at the same instant as the 60 before it, is rejected
C5_Witness ==
    /\ NthWithin(61, 60)
    /\ now = reqLog.first
    /\ ret.status_code = 429
    /\ ret.raised_by = "rate_limit"
    /\ ret.headers.remaining = 0

(* C6: an IP that sends 51 requests within 10 seconds has been blocked by   *)
(* the DDoS check (429) by the 51st request, whatever the key's bucket      *)
(* answers.                                                                 *)
C6_BurstIsDdosBlocked ==
    NthWithin(51, 10) => reqLog.ddos_blocked


(***************************************************************************)
(* The rate limiter with a store that can fail: check_rate_limit and        *)
(* check_ddos_protection called directly, any one store call of a call      *)
(* raising.  The DDoS counters start from what earlier traffic left.        *)
(***************************************************************************)
MaxCalls == 3

\* the counters right after a call at time 0 that counted m, h and b
DdosAfter(m, h, b) ==
    [minute |-> [count |-> m, expire_at |-> MinuteTTL * TicksPerSec],
     hour   |-> [count |-> h, expire_at |-> HourTTL * TicksPerSec],
     burst  |-> [count |-> b, expire_at |-> burst_window * TicksPerSec]]

(* No traffic yet; 50 calls in a burst; 120 calls, each more than 10 s and  *)
(* less than 60 s after the one before; 5000 calls, each more than 60 s and *)
(* less than an hour after the one before (every call renews the expiry of  *)
(* its counters).                                                           *)
DdosSnapshots ==
    {NoDdos,
     DdosAfter(burst_threshold, burst_threshold, burst_threshold),
     DdosAfter(minute_threshold, minute_threshold, 1),
     DdosAfter(1, hour_threshold, 1)}

InitFailOpen ==
    /\ now = 0
    /\ buckets = [k \in BucketKeys |-> NoBucket]
    /\ \E snapshot \in DdosSnapshots : ddos = [ip \in IPs |-> snapshot]
    /\ ddos_events = {}
    /\ ret = [op |-> "init"]
    /\ allowLog = [k \in BucketKeys |-> <<>>]
    /\ runLimits = [k \in BucketKeys |-> default_limits("free")]
    /\ nAllowed = [k \in BucketKeys |-> 0]
    /\ reqLog = NoRequests
    /\ tvStore = EmptyStore
    /\ tdStore = EmptyDetector
    /\ procs = NoCalls
    /\ InitKeys
    /\ whitelist = [k \in KeySpace |-> NoWhitelist]

CheckRateLimitFailing(identifier, tier, endpoint, threat_score, fail) ==
    /\ reqLog.n < MaxCalls
    /\ RateLimitStep(identifier, tier, endpoint, threat_score, fail)
    /\ reqLog' = [reqLog EXCEPT !.n = @ + 1]
    /\ UNCHANGED <<now, ddos, ddos_events, keyVars, nAllowed, tvStore,
                   tdStore, procs>>

CheckDdosProtection(ip_address, fail) ==
    LET out == check_ddos_protection(ddos[ip_address], ddos_events, ip_address, now, fail)
    IN  /\ reqLog.n < MaxCalls
        /\ ddos' = [ddos EXCEPT ![ip_address] = out.ddos]
        /\ ddos_events' = out.events
        /\ ret' = [op |-> "check_ddos_protection", ip_address |-> ip_address,
                   fail |-> fail, computed |-> out.computed, result |-> out.result]
        /\ reqLog' = [reqLog EXCEPT !.n = @ + 1]
        /\ UNCHANGED <<now, buckets, keyVars, allowLog, runLimits, nAllowed, tvStore,
                       tdStore, procs>>

\* at most one tick passes between two calls
TickBetweenCalls == now < reqLog.n /\ Tick

NextFailOpen ==
    \/ TickBetweenCalls
    \/ \E in \in {<<"free", 0>>, <<"free", 90>>}, fail \in BucketFailPoints :
           CheckRateLimitFailing("key1", in[1], "/credit", in[2], fail)
    \/ \E ip \in IPs, fail \in DdosFailPoints : CheckDdosProtection(ip, fail)

SpecFailOpen == InitFailOpen /\ [][NextFailOpen]_vars

\* the store call named by the call's fail was made, and raised
StoreFailed ==
    \/ ret.op = "check_rate_limit" /\ ret.fail # "none"
    \/ /\ ret.op = "check_ddos_protection"
       /\ \/ DdosStep(ret.fail) <= 6
          \/ DdosStep(ret.fail) <= 8 /\ ret.computed # "allow"

(* C8: the rate limiter fails open: when a store operation fails during     *)
(* check_rate_limit or check_ddos_protection, the call returns ALLOW (the   *)
(* fail-safe result with 100 remaining requests and no retry_after), never  *)
(* THROTTLE, BLOCK or CAPTCHA, and no exception reaches the caller.         *)
C8_RateLimiterFailsOpen ==
    StoreFailed => /\ ret.result.action = "allow"
                   /\ ret.result.remaining_requests = 100
                   /\ ret.result.retry_after = None

\* the burst counter passed 50, BLOCK was computed, then the write of the event
\* failed: the call answered ALLOW
C8_Witness ==
    /\ ret.op = "check_ddos_protection"
    /\ ret.fail = "log_hset"
    /\ ret.computed = "block"
    /\ ret.result.action = "allow"


(***************************************************************************)
(* The transaction validator behind validate_transaction_request: requests  *)
(* of one authenticated key for one wallet, on a store that earlier         *)
(* validations may have filled and whose calls can fail.                    *)
(***************************************************************************)
MaxValidations == 2
PriorCalls == 3

\* the store after k validations of the no-op, one per tick from time 0
RECURSIVE PriorStore(_)
PriorStore(k) ==
    IF k = 0 THEN EmptyStore
    ELSE validate_transaction(PriorStore(k - 1), "w1", NoOp, ApiKey("u1", 0, "free"),
                              k - 1, "none").store

\* malicious_contracts and wallet_balance are filled from outside this code: one
\* blacklisted contract; a typical balance of 1000 ALGO for the wallet seen before
InitValidator ==
    /\ \E k \in {0, PriorCalls} :
          /\ now = k
          /\ tvStore = [PriorStore(k) EXCEPT
                           !.malicious_contracts = {7},
                           !.wallet_balance["w1"] = IF k = 0 THEN None ELSE 1000 * Algo]
          /\ reqLog = [NoRequests EXCEPT !.first = k]
    /\ tdStore = EmptyDetector
    /\ procs = NoCalls
    /\ buckets = [k \in BucketKeys |-> NoBucket]
    /\ ddos = [ip \in IPs |-> NoDdos]
    /\ ddos_events = {}
    /\ ret = [op |-> "init"]
    /\ allowLog = [k \in BucketKeys |-> <<>>]
    /\ runLimits = [k \in BucketKeys |-> default_limits("free")]
    /\ nAllowed = [k \in BucketKeys |-> 0]
    /\ InitKeys
    /\ whitelist = [k \in KeySpace |-> NoWhitelist]

\* the requests: every transaction with a working store, some with a store call
\* that fails, and requests without a wallet address or without a transaction
ValidatorRequests ==
    {<<"w1", TRUE, tx, "none">> : tx \in Transactions}
        \cup {<<"w1", TRUE, [NoOp EXCEPT !.amount = 3], "get_avg">>,
              <<"w1", TRUE, AppCall(7, "plain"), "smembers">>,
              <<"w1", TRUE, NoOp, "temporal">>,
              <<"w1", TRUE, NoOp, "store_result">>,
              <<"w1", FALSE, NoOp, "none">>,
              <<"", TRUE, NoOp, "none">>}

ValidateTransactionRequest(wallet_address, has_tx, tx, fail) ==
    LET out == validate_transaction_request(tvStore, wallet_address, has_tx, tx,
                                            ApiKey("u1", 0, "free"), now, fail)
    IN  /\ reqLog.n < MaxValidations
        /\ tvStore' = out.store
        /\ ret' = [op |-> "validate_transaction_request",
                   wallet_address |-> wallet_address, has_tx |-> has_tx,
                   tx |-> tx, fail |-> fail,
                   validated |-> out.validated, raised |-> out.raised,
                   parts |-> out.parts, report |-> out.report,
                   status_code |-> out.status_code]
        /\ reqLog' = [reqLog EXCEPT !.n = @ + 1]
        /\ UNCHANGED <<now, buckets, ddos, ddos_events, keyVars, allowLog, runLimits,
                       nAllowed, tdStore, procs>>

\* at most one tick passes between two requests
TickValidator ==
    /\ now - reqLog.first < reqLog.n
    /\ now' = now + 1
    /\ UNCHANGED <<buckets, ddos, ddos_events, keyVars, ret, allowLog, runLimits,
                   nAllowed, reqLog, tvStore, tdStore, procs>>

NextValidator ==
    \/ TickValidator
    \/ \E r \in ValidatorRequests : ValidateTransactionRequest(r[1], r[2], r[3], r[4])

SpecValidator == InitValidator /\ [][NextValidator]_vars

\* the request just answered ran validate_transaction
Validated == ret.op = "validate_transaction_request" /\ ret.validated

(* C7: the validator fails closed: when a sub-check of validate_transaction *)
(* raises an exception that it does not handle itself, the report is        *)
(* MALICIOUS with risk 10.0 and validate_transaction_request blocks the     *)
(* request (403) as it does for a MALICIOUS verdict.                        *)
C7_ValidatorFailsClosed ==
    (Validated /\ ret.raised)
        => /\ ret.report.result = "malicious"
           /\ ret.report.risk_score = 100
           /\ ret.status_code = 403

(* C9: an application call whose application_id is in the blacklist of      *)
(* malicious contracts gets the verdict MALICIOUS, whatever its other       *)
(* fields and whatever the store held.                                      *)
C9_BlacklistedIsMalicious ==
    (/\ Validated
     /\ Get(ret.tx, "type", "") = "appl"
     /\ "application_id" \notin ret.tx.missing
     /\ ret.tx.application_id \in tvStore.malicious_contracts)
        => ret.report.result = "malicious"

\* verdicts in order of severity
Rank(result) == IF result = "valid" THEN 0 ELSE IF result = "suspicious" THEN 1 ELSE 2

\* risk scores 0.0, 0.5, ..., 12.0 (every contribution is a multiple of 1.0)
RiskScores == {5 * i : i \in 0..24}

(* C10: when no sub-check raises, the risk score of the report is the sum   *)
(* of the eight contributions and the verdict is MALICIOUS for a risk of at *)
(* least 8.0, SUSPICIOUS for a risk in [2.0, 8.0) and VALID for a risk      *)
(* below 2.0; the verdict never gets milder as the risk grows (from each    *)
(* score to the next one, half a point higher).                             *)
C10_VerdictFollowsRisk ==
    (Validated /\ ~ret.raised)
        => /\ Len(ret.parts) = 8
           /\ ret.report.risk_score = SumSeq(ret.parts)
           /\ ret.report.risk_score >= 80 <=> ret.report.result = "malicious"
           /\ (ret.report.risk_score >= 20 /\ ret.report.risk_score < 80)
                 <=> ret.report.result = "suspicious"
           /\ ret.report.risk_score < 20 <=> ret.report.result = "valid"
           /\ \A r \in RiskScores : Rank(Verdict(r)) <= Rank(Verdict(r + 5))

\* an invalid sender (5.0) with an invalid type (3.0): exactly 8.0, MALICIOUS
C10_Witness ==
    /\ Validated
    /\ ~ret.raised
    /\ ret.report.risk_score = 80
    /\ ret.report.result = "malicious"
    /\ ret.status_code = 403

\* a transaction with no issue of its own: the required fields present and
\* well-formed, an allowed type, a fee within the band, valid addresses that
\* are not blacklisted, amount 0, and no call of a listed contract or with
\* suspicious arguments
WellFormedNoOp(tx) ==
    /\ tx.missing \cap (required_fields \cup {"amount", "receiver"}) = {}
    /\ tx.malformed = {}
    /\ tx.type \in valid_types
    /\ tx.fee >= 1000 /\ tx.fee <= 10000
    /\ is_valid_algorand_address(tx.sender) /\ tx.sender \notin blacklisted_addresses
    /\ is_valid_algorand_address(tx.receiver)
    /\ tx.receiver \notin blacklisted_addresses
    /\ tx.amount = 0
    /\ tx.type = "appl" =>
          /\ Get(tx, "application_id", None) \notin tvStore.malicious_contracts
          /\ Get(tx, "application_args", "plain") = "plain"

\* nothing was submitted before by the wallet and the key
FirstSubmission(wallet_address, api_key) ==
    /\ tvStore.wallet_avg[wallet_address] = NoAverage
    /\ tvStore.mev_timing[wallet_address] = NoList
    /\ tvStore.flash_sequence[wallet_address] = NoList
    /\ tvStore.temporal[<<api_key, wallet_address>>] = NoList
    /\ \A tx \in Transactions : tvStore.replay[<<api_key, tx>>] = NoReplay

(* C11: a well-formed no-op transaction (required fields present, allowed   *)
(* type, fee within the band, valid addresses that are not blacklisted,     *)
(* amount 0) that is the first submission of its wallet and key gets the    *)
(* verdict VALID with risk score 0, whichever handled store call fails.     *)
C11_FirstNoOpIsValid ==
    [][(/\ FirstSubmission("w1", ApiKey("u1", 0, "free"))
        /\ reqLog'.n = reqLog.n + 1
        /\ ret'.validated
        /\ ~ret'.raised
        /\ WellFormedNoOp(ret'.tx))
         => /\ ret'.report.result = "valid"
            /\ ret'.report.risk_score = 0
            /\ ret'.status_code = 200]_vars

\* the no-op payment at the minimum fee, answered on the empty store
C11_Witness ==
    /\ Validated
    /\ ret.tx = NoOp
    /\ reqLog.n = 1 /\ reqLog.first = 0
    /\ ret.report.result = "valid"
    /\ ret.report.risk_score = 0
    /\ tvStore.mev_timing["w1"].items = <<0>>

(* C14: when the request carries a transaction and a wallet address,        *)
(* validate_transaction_request answers by the verdict that                 *)
(* validate_transaction gives: MALICIOUS rejects the request with 403 and   *)
(* the report (risk score, issues), SUSPICIOUS and VALID let it proceed     *)
(* (200) and return the report with the verdict.                            *)
C14_MaliciousIsRejected ==
    [][(/\ reqLog'.n = reqLog.n + 1
        /\ ret'.wallet_address # ""
        /\ ret'.has_tx)
         => LET report == validate_transaction(tvStore, ret'.wallet_address, ret'.tx,
                              ApiKey("u1", 0, "free"), now, ret'.fail).report
            IN  /\ ret'.validated
                /\ ret'.report = report
                /\ report.result = "malicious"
                      => ret'.status_code = 403 /\ ret'.report.risk_score >= 80
                /\ report.result \in {"suspicious", "valid"}
                      => ret'.status_code = 200]_vars

\* a call of the blacklisted contract 7: MALICIOUS with risk 9.0, rejected
C14_Witness ==
    /\ Validated
    /\ ret.has_tx
    /\ ret.tx = AppCall(7, "plain")
    /\ ret.report.result = "malicious"
    /\ ret.report.risk_score = 90
    /\ ret.status_code = 403

(***************************************************************************)
(* Replays: one key submits transactions of one wallet again and again,     *)
(* seconds, minutes or an hour apart, on a store whose replay key can fail. *)
(***************************************************************************)
MaxReplays == 3

\* the time between two submissions, in ticks: just under a minute, a minute,
\* ten minutes, an hour
ReplayGaps == {60 * TicksPerSec - 1, 60 * TicksPerSec, 600 * TicksPerSec,
               3600 * TicksPerSec}

ReplayTransactions == {NoOp, [NoOp EXCEPT !.amount = 3]}

\* the submissions: each transaction on a working store, the no-op also with
\* the replay key failing
ReplayRequests ==
    {<<tx, "none">> : tx \in ReplayTransactions} \cup {<<NoOp, "replay">>}

NeverSubmitted == [time |-> None, stored |-> FALSE]

\* reqLog.last: when each fingerprint was last submitted and whether the store
\* worked; reqLog.replays: for each repeated submission, the time since the
\* fingerprint was submitted before and the replay contribution it got
InitReplay ==
    /\ now = 0
    /\ tvStore = [EmptyStore EXCEPT !.malicious_contracts = {7}]
    /\ tdStore = EmptyDetector
    /\ procs = NoCalls
    /\ reqLog = [n |-> 0, first |-> 0, ddos_blocked |-> FALSE,
                 last |-> [tx \in ReplayTransactions |-> NeverSubmitted],
                 replays |-> {}]
    /\ buckets = [k \in BucketKeys |-> NoBucket]
    /\ ddos = [ip \in IPs |-> NoDdos]
    /\ ddos_events = {}
    /\ ret = [op |-> "init"]
    /\ allowLog = [k \in BucketKeys |-> <<>>]
    /\ runLimits = [k \in BucketKeys |-> default_limits("free")]
    /\ nAllowed = [k \in BucketKeys |-> 0]
    /\ InitKeys
    /\ whitelist = [k \in KeySpace |-> NoWhitelist]

\* gap ticks after the request before, the key submits tx for wallet w1
SubmitTransaction(gap, tx, fail) ==
    LET t == now + gap
        out == validate_transaction_request(tvStore, "w1", TRUE, tx,
                                            ApiKey("u1", 0, "free"), t, fail)
        before == reqLog.last[tx]
        stored == fail = "none"
    IN  /\ reqLog.n < MaxReplays
        /\ now' = t
        /\ tvStore' = out.store
        /\ ret' = [op |-> "validate_transaction_request", wallet_address |-> "w1",
                   tx |-> tx, fail |-> fail, validated |-> out.validated,
                   raised |-> out.raised, parts |-> out.parts,
                   report |-> out.report, status_code |-> out.status_code]
        /\ reqLog' = [reqLog EXCEPT
                         !.n = @ + 1,
                         !.last[tx] = [time |-> t, stored |-> stored],
                         !.replays = IF before.time = None THEN @
                                     ELSE @ \cup {[since |-> t - before.time,
                                                   risk |-> out.parts[4],
                                                   stored |-> before.stored /\ stored]}]
        /\ UNCHANGED <<buckets, ddos, ddos_events, keyVars, allowLog, runLimits,
                       nAllowed, tdStore, procs>>

NextReplay ==
    \E gap \in ReplayGaps, r \in ReplayRequests : SubmitTransaction(gap, r[1], r[2])

SpecReplay == InitReplay /\ [][NextReplay]_vars

(* C12: for one API key and a working store, a transaction whose            *)
(* fingerprint was submitted less than 60 seconds before gets a replay      *)
(* contribution strictly greater than the one a submission of the same      *)
(* fingerprint gets 10 minutes after the previous one.                      *)
C12_ReplayRiskDecays ==
    \A early, late \in reqLog.replays :
        (/\ early.stored /\ late.stored
         /\ early.since < 60 * TicksPerSec
         /\ late.since = 600 * TicksPerSec)
            => early.risk > late.risk

\* a fingerprint submitted again after 59.5 s (7.0) and again after 10 minutes
\* (nothing)
C12_Witness ==
    /\ [since |-> 60 * TicksPerSec - 1, risk |-> 70, stored |-> TRUE] \in reqLog.replays
    /\ [since |-> 600 * TicksPerSec, risk |-> 0, stored |-> TRUE] \in reqLog.replays

(***************************************************************************)
(* Risk profiles: one key has transactions of two wallets validated, some   *)
(* within the same second, and the profile of a wallet is asked for.        *)
(***************************************************************************)
MaxReports == 3

\* the no-op (VALID, 0.0) and a transaction of an invalid type from an invalid
\* sender (MALICIOUS, 8.0)
ProfileTransactions == {NoOp, [NoOp EXCEPT !.sender = "bad", !.type = "bogus"]}

\* the time between two validations, in ticks: none or a second
ProfileGaps == {0, TicksPerSec}

\* reqLog.reports: the reports that validate_transaction stored, oldest first
InitProfile ==
    /\ now = 0
    /\ tvStore = EmptyStore
    /\ tdStore = EmptyDetector
    /\ procs = NoCalls
    /\ reqLog = [n |-> 0, first |-> 0, ddos_blocked |-> FALSE, reports |-> <<>>]
    /\ buckets = [k \in BucketKeys |-> NoBucket]
    /\ ddos = [ip \in IPs |-> NoDdos]
    /\ ddos_events = {}
    /\ ret = [op |-> "init"]
    /\ allowLog = [k \in BucketKeys |-> <<>>]
    /\ runLimits = [k \in BucketKeys |-> default_limits("free")]
    /\ nAllowed = [k \in BucketKeys |-> 0]
    /\ InitKeys
    /\ whitelist = [k \in KeySpace |-> NoWhitelist]

ValidateTransaction(gap, wallet_address, tx) ==
    LET t == now + gap
        out == validate_transaction(tvStore, wallet_address, tx,
                                    ApiKey("u1", 0, "free"), t, "none")
    IN  /\ reqLog.n < MaxReports
        /\ now' = t
        /\ tvStore' = out.store
        /\ ret' = [op |-> "validate_transaction", wallet_address |-> wallet_address,
                   report |-> out.report]
        /\ reqLog' = [reqLog EXCEPT
                         !.n = @ + 1,
                         !.reports = Append(@, [wallet_address |-> wallet_address,
                                                result |-> out.report.result])]
        /\ UNCHANGED <<buckets, ddos, ddos_events, keyVars, allowLog, runLimits,
                       nAllowed, tdStore, procs>>

GetWalletRiskProfile(wallet_address) ==
    /\ \E considered \in ConsideredKeys(tvStore.validations) :
          ret' = [op |-> "get_wallet_risk_profile", wallet_address |-> wallet_address,
                  profile |-> get_wallet_risk_profile(considered, wallet_address)]
    /\ UNCHANGED <<now, buckets, ddos, ddos_events, keyVars, allowLog, runLimits,
                   nAllowed, reqLog, tvStore, tdStore, procs>>

NextProfile ==
    \/ \E gap \in ProfileGaps, w \in Wallets, tx \in ProfileTransactions :
          ValidateTransaction(gap, w, tx)
    \/ \E w \in Wallets : GetWalletRiskProfile(w)

SpecProfile == InitProfile /\ [][NextProfile]_vars

\* the last profile_window reports of a log
LastReports(reports) ==
    SubSeq(reports, Max(1, Len(reports) - profile_window + 1), Len(reports))

\* how many of the reports are MALICIOUS reports of the wallet
MaliciousReports(reports, wallet_address) ==
    Cardinality({i \in DOMAIN reports :
                    /\ reports[i].wallet_address = wallet_address
                    /\ reports[i].result = "malicious"})

(* C13: after validate_transaction calls have stored their reports, the     *)
(* malicious_count of get_wallet_risk_profile(wallet) is the number of      *)
(* MALICIOUS reports of that wallet among the last 100 reports stored.      *)
C13_MaliciousCountIsExact ==
    (ret.op = "get_wallet_risk_profile" /\ ret.profile.risk_level # "unknown")
        => ret.profile.malicious_count
              = MaliciousReports(LastReports(reqLog.reports), ret.wallet_address)

(* C30: every validate_transaction call that completes adds one stored      *)
(* validation record: after N calls, at any times and also several within   *)
(* one second, the store holds N validation records.                        *)
C30_OneRecordPerCall ==
    Cardinality(tvStore.validations) = Len(reqLog.reports)

(***************************************************************************)
(* The steps of authenticate_request: requests with the generated key, a    *)
(* malformed key or no key, from two IPs, on stores that earlier traffic    *)
(* may have filled and whose calls can fail.                                *)
(***************************************************************************)
MaxAuthRequests == 2

AuthIPs == {"ip1", "ip2"}

\* the bucket of a free key right after burst_capacity requests at time 0
DrainedBucket ==
    [present |-> TRUE, tokens |-> 0, last_refill |-> 0,
     expire_at |-> BucketTTL * TicksPerSec]

\* api key, client IP and the store call that fails in each of the callees
AuthRequests ==
    {<<E2EKey, "ip1", NoFailure>>,
     <<E2EKey, "ip2", NoFailure>>,
     <<MalformedKey, "ip1", NoFailure>>,
     <<NoApiKey, "ip1", NoFailure>>,
     <<E2EKey, "ip1", <<"hgetall", "none", "none">>>>,
     <<E2EKey, "ip1", <<"none", "hgetall", "none">>>>,
     <<E2EKey, "ip1", <<"none", "none", "incr_burst">>>>}

\* the key is active or was suspended for a threat score of 9.0; it has no
\* allowlist or one with ip1; its bucket is new or drained; ip1 sent nothing
\* or a burst of 50
InitAuth ==
    /\ now = 0
    /\ \E threat_score \in {0, 90} :
          api_keys = update_threat_score(
                         generate_api_key([k \in KeySpace |-> NoKey], "u1", "free", 0).keys,
                         E2EKey, threat_score)
    /\ keyHist = [k \in KeySpace |-> NoHist]
    /\ \E ips \in {NoWhitelist, {"ip1"}} : whitelist = [k \in KeySpace |-> ips]
    /\ \E b \in {NoBucket, DrainedBucket} :
          buckets = [k \in E2EBucketKeys |->
                        IF k = BucketKey("api_key", E2EKey, "/credit") THEN b
                        ELSE NoBucket]
    /\ \E snapshot \in {NoDdos, DdosAfter(burst_threshold, burst_threshold,
                                           burst_threshold)} :
          ddos = [ip \in AuthIPs |-> IF ip = "ip1" THEN snapshot ELSE NoDdos]
    /\ ddos_events = {}
    /\ ret = [op |-> "init"]
    /\ allowLog = [k \in BucketKeys |-> <<>>]
    /\ runLimits = [k \in BucketKeys |-> default_limits("free")]
    /\ nAllowed = [k \in BucketKeys |-> 0]
    /\ reqLog = NoRequests
    /\ tvStore = EmptyStore
    /\ tdStore = EmptyDetector
    /\ procs = NoCalls

\* gap ticks after the request before, a request arrives
AuthRequest(gap, api_key, client_ip, fail) ==
    LET t == now + gap
        out == authenticate_request(api_keys, whitelist, buckets, ddos, ddos_events,
                                    api_key, client_ip, "/credit", t, fail)
    IN  /\ reqLog.n < MaxAuthRequests
        /\ now' = t
        /\ api_keys' = out.keys
        /\ buckets' = out.buckets
        /\ ddos' = out.ddos
        /\ ddos_events' = out.events
        /\ reqLog' = [reqLog EXCEPT !.n = @ + 1]
        /\ ret' = [op |-> "authenticate_request", api_key |-> api_key,
                   client_ip |-> client_ip, fail |-> fail,
                   status_code |-> out.status_code, raised_by |-> out.raised_by,
                   action |-> out.action]
        /\ UNCHANGED <<whitelist, keyHist, allowLog, runLimits, nAllowed, tvStore,
                       tdStore, procs>>

NextAuth ==
    \E gap \in {0, 1}, r \in AuthRequests : AuthRequest(gap, r[1], r[2], r[3])

SpecAuth == InitAuth /\ [][NextAuth]_vars

(* C15: authenticate_request runs key validation, then the token-bucket     *)
(* check (with the tier and threat score the validation returned), then the *)
(* DDoS check; it admits the request (200) only if the key is valid and     *)
(* neither check answers BLOCK; a request rejected for a missing or invalid *)
(* key changes no bucket and no DDoS counter, and a request rejected by the *)
(* bucket check changes no DDoS counter.                                    *)
C15_StepsInOrder ==
    [][reqLog'.n = reqLog.n + 1
         => LET api_key == ret'.api_key
                ip == ret'.client_ip
                auth == validate_api_key(api_keys, whitelist, api_key, ip, now',
                                         ret'.fail[1])
                valid == api_key # NoApiKey /\ auth.context.is_valid
                rate == check_rate_limit(buckets, api_key, "api_key",
                                         auth.context.tier, "/credit",
                                         auth.context.threat_score, now', ret'.fail[2])
                dd == check_ddos_protection(ddos[ip], ddos_events, ip, now',
                                            ret'.fail[3])
            IN  /\ ret'.status_code = 200
                      => /\ valid
                         /\ rate.result.action # "block"
                         /\ dd.result.action # "block"
                /\ ~valid
                      => /\ ret'.status_code = 401
                         /\ buckets' = buckets /\ ddos' = ddos
                         /\ ddos_events' = ddos_events
                /\ (valid /\ rate.result.action = "block")
                      => /\ ret'.status_code = 429
                         /\ buckets' = rate.buckets
                         /\ ddos' = ddos /\ ddos_events' = ddos_events
                /\ (valid /\ rate.result.action # "block")
                      => /\ buckets' = rate.buckets
                         /\ ddos' = [ddos EXCEPT ![ip] = dd.ddos]
                         /\ dd.result.action = "block" => ret'.status_code = 429]_vars

\* a valid key on a drained bucket, from an IP one request short of a burst
\* block: rejected by the bucket, the counters of the IP as they were
C15_Witness ==
    /\ ret.op = "authenticate_request"
    /\ ret.api_key = E2EKey
    /\ ret.raised_by = "rate_limit"
    /\ ret.status_code = 429
    /\ reqLog.n = 1
    /\ ddos["ip1"].burst.count = burst_threshold

(* C28: with the store working, authenticate_request admits a request      *)
(* (200) only if the token-bucket check for its key answered ALLOW; a       *)
(* request whose bucket check answered THROTTLE is not admitted.            *)
C28_AdmittedOnlyOnAllow ==
    (/\ ret.op = "authenticate_request"
     /\ ret.fail = NoFailure
     /\ ret.status_code = 200)
        => ret.action = "allow"

(***************************************************************************)
(* Requests that are logged: authenticate_request, and log_request on the   *)
(* completion of a request that was admitted.                               *)
(***************************************************************************)
LogFailPoints == {"none", "hset", "expire"}

\* log_request with the SecurityContext of the request just admitted
LogRequest(fail) ==
    LET api_key == ret.api_key
        out == log_request(api_keys, api_key, api_keys[api_key].threat_score, fail)
    IN  /\ ret.op = "authenticate_request"
        /\ ret.status_code = 200
        /\ api_keys' = out.keys
        /\ ret' = [op |-> "log_request", api_key |-> api_key, fail |-> fail,
                   logged |-> out.logged, updated |-> out.updated]
        /\ UNCHANGED <<now, buckets, ddos, ddos_events, whitelist, keyHist, allowLog,
                       runLimits, nAllowed, reqLog, tvStore, tdStore, procs>>

NextLog ==
    \/ NextAuth
    \/ \E fail \in LogFailPoints : LogRequest(fail)

SpecLog == InitAuth /\ [][NextLog]_vars

(* C19: every log_request call, its store working, results in an            *)
(* update_threat_score call for the key of the request.                     *)
C19_LogUpdatesThreatScore ==
    (ret.op = "log_request" /\ ret.fail = "none") => ret.updated

(***************************************************************************)
(* DDoS protection over time: check_ddos_protection called for two IPs,     *)
(* at once or seconds and minutes apart, on counters that earlier traffic   *)
(* of ip1 left.                                                             *)
(***************************************************************************)
MaxDdosCalls == 3

\* the time between two calls, in ticks: none, half a second, the burst window,
\* the 300 s of a block
DdosGaps == {0, 1, burst_window * TicksPerSec, 300 * TicksPerSec}

(* The counters of ip1 at time 0.  As in DdosSnapshots, and: 5000 calls in  *)
(* the hour of which 120 in the last minute, and of those 50 or one in the  *)
(* last 10 s.                                                               *)
DdosHistories ==
    DdosSnapshots
        \cup {DdosAfter(minute_threshold, hour_threshold, burst_threshold),
              DdosAfter(minute_threshold, hour_threshold, 1)}

\* ip address and failing store call: ip1 with a working store and with INCR of
\* the hour counter failing, ip2 with a working store
DdosCalls == {<<"ip1", "none">>, <<"ip1", "incr_hour">>, <<"ip2", "none">>}

\* reqLog.last_block: when each IP was last answered BLOCK
InitDdos ==
    /\ now = 0
    /\ \E history \in DdosHistories :
          ddos = [ip \in AuthIPs |-> IF ip = "ip1" THEN history ELSE NoDdos]
    /\ ddos_events = {}
    /\ reqLog = [n |-> 0, first |-> 0, ddos_blocked |-> FALSE,
                 last_block |-> [ip \in AuthIPs |-> None]]
    /\ buckets = [k \in BucketKeys |-> NoBucket]
    /\ ret = [op |-> "init"]
    /\ allowLog = [k \in BucketKeys |-> <<>>]
    /\ runLimits = [k \in BucketKeys |-> default_limits("free")]
    /\ nAllowed = [k \in BucketKeys |-> 0]
    /\ tvStore = EmptyStore
    /\ tdStore = EmptyDetector
    /\ procs = NoCalls
    /\ InitKeys
    /\ whitelist = [k \in KeySpace |-> NoWhitelist]

\* gap ticks after the call before, check_ddos_protection(ip_address)
DdosCheck(gap, ip_address, fail) ==
    LET t == now + gap
        out == check_ddos_protection(ddos[ip_address], ddos_events, ip_address, t, fail)
        blocked == out.result.action = "block"
    IN  /\ reqLog.n < MaxDdosCalls
        /\ ip_address = "ip2" => gap = 0
        /\ now' = t
        /\ ddos' = [ddos EXCEPT ![ip_address] = out.ddos]
        /\ ddos_events' = out.events
        /\ ret' = [op |-> "check_ddos_protection", ip_address |-> ip_address,
                   fail |-> fail, computed |-> out.computed, result |-> out.result,
                   last_block |-> reqLog.last_block[ip_address]]
        /\ reqLog' = [reqLog EXCEPT
                         !.n = @ + 1,
                         !.ddos_blocked = @ \/ blocked,
                         !.last_block[ip_address] = IF blocked THEN t ELSE @]
        /\ UNCHANGED <<buckets, keyVars, allowLog, runLimits, nAllowed, tvStore,
                       tdStore, procs>>

NextDdos == \E gap \in DdosGaps, c \in DdosCalls : DdosCheck(gap, c[1], c[2])

SpecDdos == InitDdos /\ [][NextDdos]_vars

\* what a counter holds for a call at time t
Counted(c, t) == IF CounterLive(c, t) THEN c.count ELSE 0

(* C16: a call of check_ddos_protection whose store works adds exactly one  *)
(* to each of the three counters of its IP and leaves the counters of every *)
(* other IP alone; its action is the first match of: burst count > 50,      *)
(* BLOCK with retry_after 300; minute count > 120, THROTTLE with 60; hour   *)
(* count > 5000, CAPTCHA with 30; otherwise ALLOW with no retry_after.      *)
C16_FirstMatchAndCounting ==
    [][(reqLog'.n = reqLog.n + 1 /\ ret'.fail = "none")
         => LET ip == ret'.ip_address
                minute_count == ddos'[ip].minute.count
                hour_count == ddos'[ip].hour.count
                burst_count == ddos'[ip].burst.count
                result == ret'.result
            IN  /\ minute_count = Counted(ddos[ip].minute, now') + 1
                /\ hour_count = Counted(ddos[ip].hour, now') + 1
                /\ burst_count = Counted(ddos[ip].burst, now') + 1
                /\ \A other \in AuthIPs \ {ip} : ddos'[other] = ddos[other]
                /\ IF burst_count > 50
                   THEN result.action = "block" /\ result.retry_after = 300
                   ELSE IF minute_count > 120
                   THEN result.action = "throttle" /\ result.retry_after = 60
                   ELSE IF hour_count > 5000
                   THEN result.action = "captcha" /\ result.retry_after = 30
                   ELSE result.action = "allow" /\ result.retry_after = None]_vars

\* the 51st call of a burst that is also the 121st of its minute and the 5001st
\* of its hour: BLOCK
C16_Witness ==
    /\ ret.op = "check_ddos_protection"
    /\ ret.fail = "none"
    /\ ddos[ret.ip_address].burst.count = 51
    /\ ddos[ret.ip_address].minute.count = 121
    /\ ddos[ret.ip_address].hour.count = 5001
    /\ ret.result.action = "block"
    /\ ret.result.retry_after = 300

(* C17: once check_ddos_protection has answered BLOCK for an IP, every call *)
(* for that IP during the following 300 seconds is answered BLOCK too.      *)
C17_BlockedForFiveMinutes ==
    (/\ ret.op = "check_ddos_protection"
     /\ ret.fail = "none"
     /\ ret.last_block # None
     /\ now - ret.last_block <= 300 * TicksPerSec)
        => ret.result.action = "block"

(***************************************************************************)
(* _adjust_limits_for_threat on its own: the limits of each tier at each    *)
(* threat score from 0.0 to 10.0, in steps of 0.1.                          *)
(***************************************************************************)
ThreatTenths == 0..100

LimitNames == {"requests_per_minute", "requests_per_hour", "burst_capacity"}

AdjustLimitsForThreat(tier, threat_score) ==
    /\ ret' = [op |-> "adjust_limits_for_threat", tier |-> tier,
               threat_score |-> threat_score,
               limits |-> adjust_limits_for_threat(default_limits(tier), threat_score)]
    /\ UNCHANGED <<now, buckets, ddos, ddos_events, keyVars, allowLog, runLimits,
                   nAllowed, reqLog, tvStore, tdStore, procs>>

NextAdjust ==
    \E tier \in TierNames, threat_score \in ThreatTenths :
        AdjustLimitsForThreat(tier, threat_score)

SpecAdjust == Init /\ [][NextAdjust]_vars

(* C21: for every tier and threat scores s1 <= s2 in [0, 10], each limit    *)
(* adjusted for s2 is at most the one adjusted for s1; no adjusted limit is *)
(* below 10% of its base value; the adjusted burst capacity is at least 1.  *)
C21_AdjustedLimitsShrink ==
    ret.op = "adjust_limits_for_threat"
        => LET base == default_limits(ret.tier)
           IN  /\ \A name \in LimitNames :
                     /\ \A s1 \in 0..ret.threat_score :
                           ret.limits[name]
                              <= adjust_limits_for_threat(base, s1)[name]
                     /\ 10 * ret.limits[name] >= base[name]
               /\ ret.limits.burst_capacity >= 1

\* the free tier at 8.0, where 1.0 - 0.8 rounds below 0.2: a burst capacity of 1
C21_Witness ==
    /\ ret.op = "adjust_limits_for_threat"
    /\ ret.tier = "free"
    /\ ret.threat_score = 80
    /\ ret.limits = [requests_per_minute |-> 11, requests_per_hour |-> 199,
                     burst_capacity |-> 1]

(***************************************************************************)
(* The threat detector: analyze_transaction_request for two wallets under   *)
(* two API keys, at once or seconds and minutes apart, and the threat       *)
(* summary of a key.                                                        *)
(***************************************************************************)
MaxAnalyses == 3

\* the time between two requests, in ticks: none, 10 s, 200 s
DetectorGaps == {0, 10 * TicksPerSec, 200 * TicksPerSec}

\* gap, api key, wallet, transaction, IP ("" for none) and the check whose
\* store call fails
DetectorRequests ==
    {<<gap, "k1", "w1", SmallTx, "ip1", "none">> : gap \in DetectorGaps}
        \cup {<<gap, "k1", "w1", LargeTx, "", "none">> : gap \in DetectorGaps}
        \cup {<<0, "k2", "w1", SmallTx, "", "none">>,
              <<0, "k1", "w2", SmallTx, "", "none">>,
              <<0, "k1", "w1", SmallTx, "ip1", "replay">>,
              <<0, "k1", "w1", SmallTx, "ip1", "log">>}

\* a counter right after a call at time 0 that counted n, expiring after a minute
CountedAtZero(n) == [count |-> n, expire_at |-> 60 * TicksPerSec]

\* what requests under other keys have left at time 0: ip1 has sent 300
\* requests, and w1 three large transactions, none of which raised an alert
BusyDetector ==
    [EmptyDetector EXCEPT
        !.rate_ip["ip1"] = CountedAtZero(300),
        !.recent_tx["w1"] = CountedAtZero(3),
        !.avg_amount["w1"] = [present |-> TRUE, total |-> 3 * LargeTx.amount,
                              count |-> 3],
        !.mev_pattern["w1"] = [items |-> <<0, 0, 0>>,
                               expire_at |-> 300 * TicksPerSec]]

DetectorHistories == {EmptyDetector, BusyDetector}

\* reqLog.alerts: the alerts returned so far, each with the key of its request;
\* reqLog.times: when each wallet had a transaction analysed; reqLog.faults:
\* the requests during which a store call failed
InitDetector ==
    /\ now = 0
    /\ tdStore \in DetectorHistories
    /\ procs = NoCalls
    /\ reqLog = [n |-> 0, first |-> 0, ddos_blocked |-> FALSE, alerts |-> <<>>,
                 times |-> [w \in Wallets |->
                              IF tdStore.mev_pattern[w].items = <<>> THEN <<>>
                              ELSE tdStore.mev_pattern[w].items],
                 faults |-> 0]
    /\ tvStore = EmptyStore
    /\ buckets = [k \in BucketKeys |-> NoBucket]
    /\ ddos = [ip \in IPs |-> NoDdos]
    /\ ddos_events = {}
    /\ ret = [op |-> "init"]
    /\ allowLog = [k \in BucketKeys |-> <<>>]
    /\ runLimits = [k \in BucketKeys |-> default_limits("free")]
    /\ nAllowed = [k \in BucketKeys |-> 0]
    /\ InitKeys
    /\ whitelist = [k \in KeySpace |-> NoWhitelist]

AnalyzeTransactionRequest(gap, api_key, wallet_address, tx, ip_address, fail) ==
    LET t == now + gap
        out == analyze_transaction_request(tdStore, api_key, wallet_address, tx,
                                           ip_address, t, fail)
        raised == [i \in DOMAIN out.threats |->
                      [api_key |-> api_key, time |-> t,
                       type |-> out.threats[i].threat_type]]
    IN  /\ reqLog.n < MaxAnalyses
        /\ now' = t
        /\ tdStore' = out.store
        /\ ret' = [op |-> "analyze_transaction_request", api_key |-> api_key,
                   wallet_address |-> wallet_address, tx |-> tx,
                   ip_address |-> ip_address, fail |-> fail, threats |-> out.threats]
        /\ reqLog' = [reqLog EXCEPT !.n = @ + 1,
                                    !.alerts = @ \o raised,
                                    !.times[wallet_address] = Append(@, t),
                                    !.faults = IF fail = "none" THEN @ ELSE @ + 1]
        /\ UNCHANGED <<buckets, ddos, ddos_events, keyVars, allowLog, runLimits,
                       nAllowed, tvStore, procs>>

GetThreatSummary(api_key, hours) ==
    /\ ret' = [op |-> "get_threat_summary", api_key |-> api_key, hours |-> hours,
               summary |-> get_threat_summary(tdStore.threats, api_key, hours, now)]
    /\ UNCHANGED <<now, buckets, ddos, ddos_events, keyVars, allowLog, runLimits,
                   nAllowed, reqLog, tvStore, tdStore, procs>>

NextDetector ==
    \/ \E r \in DetectorRequests :
          AnalyzeTransactionRequest(r[1], r[2], r[3], r[4], r[5], r[6])
    \/ \E api_key \in DetectorKeys, hours \in {0, 1} : GetThreatSummary(api_key, hours)

SpecDetector == InitDetector /\ [][NextDetector]_vars

\* the alerts of one type among those returned
AlertsOfType(threats, threat_type) ==
    {i \in DOMAIN threats : threats[i].threat_type = threat_type}

(* C22: with the store working, a transaction whose fingerprint was         *)
(* recorded for the same API key less than 300 seconds earlier yields a     *)
(* HIGH replay alert and leaves the recorded time and expiry unchanged; in  *)
(* every other case no replay alert is returned and the fingerprint is      *)
(* recorded with the current time and an expiry one hour later.             *)
C22_ReplayWithinFiveMinutes ==
    [][(reqLog'.n = reqLog.n + 1 /\ ret'.fail = "none")
         => LET key == <<ret'.api_key, create_transaction_fingerprint(ret'.tx)>>
                seen == tdStore.tx_fingerprint[key]
                recorded == /\ seen.present
                            /\ now' < seen.expire_at
                            /\ now' - seen.last_seen < 300 * TicksPerSec
                replays == AlertsOfType(ret'.threats, "replay_attack")
            IN  IF recorded
                THEN /\ replays # {}
                     /\ \A i \in replays : ret'.threats[i].threat_level = HIGH
                     /\ tdStore'.tx_fingerprint[key] = seen
                ELSE /\ replays = {}
                     /\ tdStore'.tx_fingerprint[key]
                           = [present |-> TRUE, last_seen |-> now',
                              expire_at |-> now' + 3600 * TicksPerSec]]_vars

\* recorded at 0 s, flagged 200 s later with the record left at 0 s
C22_Witness ==
    /\ ret.op = "analyze_transaction_request"
    /\ ret.fail = "none"
    /\ now = 200 * TicksPerSec
    /\ AlertsOfType(ret.threats, "replay_attack") # {}
    /\ tdStore.tx_fingerprint[<<ret.api_key, create_transaction_fingerprint(ret.tx)>>]
          = [present |-> TRUE, last_seen |-> 0, expire_at |-> 3600 * TicksPerSec]

\* the transactions of the wallet, the one just analysed included, made less
\* than 30 seconds before now
WithinWindow(times) == {i \in DOMAIN times : now - times[i] < 30 * TicksPerSec}

(* C23: a transaction that makes 3 or more transactions of its wallet fall  *)
(* within 30 seconds is flagged MEDIUM by the MEV check: the third          *)
(* transaction of a wallet within 30 seconds is flagged.                    *)
C23_ThirdInWindowFlagged ==
    (/\ ret.op = "analyze_transaction_request"
     /\ ret.fail = "none"
     /\ Cardinality(WithinWindow(reqLog.times[ret.wallet_address])) >= 3)
        => \E i \in AlertsOfType(ret.threats, "mev_manipulation") :
               ret.threats[i].threat_level = MEDIUM

\* the alerts returned to requests of the key within the lookback window
AlertsOfKey(alerts, api_key, hours) ==
    {i \in DOMAIN alerts :
        /\ alerts[i].api_key = api_key
        /\ alerts[i].time >= now - hours * 3600 * TicksPerSec}

(* C24: while the store works, get_threat_summary(api_key, hours) counts    *)
(* every alert returned to a request of that key within the lookback window *)
(* exactly once: total_threats is the number of those alerts, and each      *)
(* type's count is the number of them of that type.                         *)
C24_SummaryCountsEveryAlert ==
    (ret.op = "get_threat_summary" /\ reqLog.faults = 0)
        => LET mine == AlertsOfKey(reqLog.alerts, ret.api_key, ret.hours)
           IN  /\ ret.summary.total_threats = Cardinality(mine)
               /\ \A type \in ThreatTypes :
                     ret.summary.threats_by_type[type]
                        = Cardinality({i \in mine : reqLog.alerts[i].type = type})

(***************************************************************************)
(* Two concurrent check_rate_limit calls on one bucket.  A call reads the   *)
(* bucket (HGETALL, line 104) and writes it back (HSET, line 137) in two    *)
(* store commands; the other caller's commands may fall between them.       *)
(***************************************************************************)
MaxRaceTicks == 3

RaceKey == BucketKey("api_key", "key1", "")
RaceLimits == adjust_limits_for_threat(default_limits("free"), 0)

\* what an earlier check at time 0 left in the bucket: 0.5, 1, 1.5 or 2 tokens
RaceTokens == {TokenUnit \div 2, TokenUnit, (3 * TokenUnit) \div 2, 2 * TokenUnit}

\* reqLog.bucket0: the bucket before the two calls; reqLog.interleaved: a call
\* read the bucket while the other was between its read and its write
InitRace ==
    /\ now = 0
    /\ \E tokens \in RaceTokens :
          LET b == [present |-> TRUE, tokens |-> tokens, last_refill |-> 0,
                    expire_at |-> BucketTTL * TicksPerSec]
          IN  /\ buckets = [k \in BucketKeys |-> IF k = RaceKey THEN b ELSE NoBucket]
              /\ reqLog = [n |-> 0, first |-> None, ddos_blocked |-> FALSE,
                           bucket0 |-> b, interleaved |-> FALSE]
    /\ ddos = [ip \in IPs |-> NoDdos]
    /\ ddos_events = {}
    /\ ret = [op |-> "init"]
    /\ allowLog = [k \in BucketKeys |-> <<>>]
    /\ runLimits = [k \in BucketKeys |-> default_limits("free")]
    /\ nAllowed = [k \in BucketKeys |-> 0]
    /\ tvStore = EmptyStore
    /\ tdStore = EmptyDetector
    /\ procs = NoCalls
    /\ InitKeys
    /\ whitelist = [k \in KeySpace |-> NoWhitelist]

RaceTick ==
    /\ now < MaxRaceTicks
    /\ now' = now + 1
    /\ UNCHANGED <<buckets, ddos, ddos_events, keyVars, ret, allowLog, runLimits,
                   nAllowed, reqLog, tvStore, tdStore, procs>>

\* lines 75 and 104: current_time = time.time(); bucket_data = hgetall(bucket_key)
ReadBucket(p) ==
    /\ procs[p].pc = "idle"
    /\ procs' = [procs EXCEPT ![p] = [pc |-> "read", current_time |-> now,
                                      bucket_data |-> buckets[RaceKey]]]
    /\ reqLog' = [reqLog EXCEPT !.interleaved =
                      @ \/ \E q \in Callers \ {p} : procs[q].pc = "read"]
    /\ UNCHANGED <<now, buckets, ddos, ddos_events, keyVars, ret, allowLog, runLimits,
                   nAllowed, tvStore, tdStore>>

\* lines 106-152: the result computed from the data read, the bucket written back
WriteBucket(p) ==
    LET out == token_bucket_check(procs[p].bucket_data, RaceLimits,
                                  procs[p].current_time, "none")
    IN  /\ procs[p].pc = "read"
        /\ buckets' = [buckets EXCEPT ![RaceKey] = out.bucket]
        /\ procs' = [procs EXCEPT ![p] = [pc |-> "done",
                                          current_time |-> procs[p].current_time,
                                          result |-> out.result]]
        /\ ret' = [op |-> "check_rate_limit", key |-> RaceKey, limits |-> RaceLimits,
                   fail |-> "none", result |-> out.result]
        /\ nAllowed' = [nAllowed EXCEPT ![RaceKey] =
                           @ + (IF out.result.action = "allow" THEN 1 ELSE 0)]
        /\ UNCHANGED <<now, ddos, ddos_events, keyVars, allowLog, runLimits, reqLog,
                       tvStore, tdStore>>

NextRace ==
    \/ RaceTick
    \/ \E p \in Callers : ReadBucket(p)
    \/ \E p \in Callers : WriteBucket(p)

SpecRace == InitRace /\ [][NextRace]_vars

BothReturned == \A p \in Callers : procs[p].pc = "done"

\* the tokens the bucket has for the two calls: what it held before them and
\* the refill up to the later call
TokensAvailable ==
    LET p == CHOOSE p \in Callers :
                 \A q \in Callers : procs[q].current_time <= procs[p].current_time
    IN  RefilledTokens(reqLog.bucket0, RaceLimits, procs[p].current_time)

(* C25: two check_rate_limit calls on one bucket that holds tokens for only *)
(* one request can both return ALLOW, and they do so only when they         *)
(* interleave: one reads the bucket before the other has written it back.   *)
C25_BothAllowedOnlyInterleaved ==
    (/\ BothReturned
     /\ \A p \in Callers : procs[p].result.action = "allow"
     /\ TokensAvailable < 2 * TokenUnit)
        => reqLog.interleaved

\* one token in the bucket, no time for a refill, and both calls allowed
C25_Witness ==
    /\ BothReturned
    /\ \A p \in Callers : procs[p].result.action = "allow"
    /\ reqLog.bucket0.tokens = TokenUnit
    /\ now = 0
    /\ nAllowed[RaceKey] = 2

(***************************************************************************)
(* DDoS protection for an IP that keeps sending: check_ddos_protection      *)
(* called again and again for ip1, at once or up to 10 seconds apart.       *)
(***************************************************************************)
MaxSpreadCalls == 3

\* the time between two calls, in ticks: none, 1 s, 9 s, the burst window
SpreadGaps == {0, TicksPerSec, 9 * TicksPerSec, burst_window * TicksPerSec}

(* The counters of ip1 at time 0 and the times of its calls that are less   *)
(* than 10 s old: after 50 calls at time 0; after 48 calls, each 9 s after  *)
(* the one before, the last at time 0 (every call renews the 10 s expiry of *)
(* ddos_burst, so the counter has never lapsed).                            *)
SpreadHistories ==
    {[ddos |-> DdosAfter(burst_threshold, burst_threshold, burst_threshold),
      times |-> [i \in 1..burst_threshold |-> 0]],
     [ddos |-> DdosAfter(48, 48, 48), times |-> <<-9 * TicksPerSec, 0>>]}

\* reqLog.times: when ip1 was checked
InitSpread ==
    /\ now = 0
    /\ \E history \in SpreadHistories :
          /\ ddos = [ip \in IPs |-> history.ddos]
          /\ reqLog = [n |-> 0, first |-> 0, ddos_blocked |-> FALSE,
                       times |-> history.times]
    /\ ddos_events = {}
    /\ buckets = [k \in BucketKeys |-> NoBucket]
    /\ ret = [op |-> "init"]
    /\ allowLog = [k \in BucketKeys |-> <<>>]
    /\ runLimits = [k \in BucketKeys |-> default_limits("free")]
    /\ nAllowed = [k \in BucketKeys |-> 0]
    /\ tvStore = EmptyStore
    /\ tdStore = EmptyDetector
    /\ procs = NoCalls
    /\ InitKeys
    /\ whitelist = [k \in KeySpace |-> NoWhitelist]

\* gap ticks after the call before, check_ddos_protection("ip1")
SpreadCheck(gap) ==
    LET t == now + gap
        out == check_ddos_protection(ddos["ip1"], ddos_events, "ip1", t, "none")
    IN  /\ reqLog.n < MaxSpreadCalls
        /\ now' = t
        /\ ddos' = [ddos EXCEPT !["ip1"] = out.ddos]
        /\ ddos_events' = out.events
        /\ ret' = [op |-> "check_ddos_protection", ip_address |-> "ip1",
                   fail |-> "none", computed |-> out.computed, result |-> out.result]
        /\ reqLog' = [reqLog EXCEPT !.n = @ + 1,
                                    !.ddos_blocked = @ \/ out.result.action = "block",
                                    !.times = Append(@, t)]
        /\ UNCHANGED <<buckets, keyVars, allowLog, runLimits, nAllowed, tvStore,
                       tdStore, procs>>

NextSpread == \E gap \in SpreadGaps : SpreadCheck(gap)

SpecSpread == InitSpread /\ [][NextSpread]_vars

\* the checks of the IP in the 10 seconds up to now, the last one included
ChecksInWindow ==
    Cardinality({i \in DOMAIN reqLog.times :
                    now - reqLog.times[i] <= burst_window * TicksPerSec})

(* C26: check_ddos_protection answers BLOCK for an IP only if more than 50  *)
(* checks for that IP fell within the 10 seconds up to that check: an IP    *)
(* that never has more than 50 checks in 10 seconds is never BLOCKed.       *)
C26_BlockOnlyAfterBurst ==
    (ret.op = "check_ddos_protection" /\ ret.result.action = "block")
        => ChecksInWindow > burst_threshold

(***************************************************************************)
(* validate_api_key and update_threat_score called concurrently for one     *)
(* generated key.  update_threat_score writes the score and the status in   *)
(* two HSET commands; validate_api_key reads the hash once (HGETALL) and    *)
(* builds its context from what it read.                                    *)
(***************************************************************************)
MaxKeyCalls == 3

\* reqLog.interleaved: a call began while another call was under way
InitKeyRace ==
    /\ now = 0
    /\ api_keys = generate_api_key([k \in KeySpace |-> NoKey], "u1", "free", 0).keys
    /\ keyHist = [k \in KeySpace |-> NoHist]
    /\ whitelist = [k \in KeySpace |-> NoWhitelist]
    /\ reqLog = [n |-> 0, first |-> None, ddos_blocked |-> FALSE, interleaved |-> FALSE]
    /\ buckets = [k \in BucketKeys |-> NoBucket]
    /\ ddos = [ip \in IPs |-> NoDdos]
    /\ ddos_events = {}
    /\ ret = [op |-> "init"]
    /\ allowLog = [k \in BucketKeys |-> <<>>]
    /\ runLimits = [k \in BucketKeys |-> default_limits("free")]
    /\ nAllowed = [k \in BucketKeys |-> 0]
    /\ tvStore = EmptyStore
    /\ tdStore = EmptyDetector
    /\ procs = NoCalls

\* a call begins: it is counted, and it interleaves if another is under way
BeginCall(p) ==
    /\ procs[p].pc = "idle"
    /\ reqLog.n < MaxKeyCalls
    /\ reqLog' = [reqLog EXCEPT !.n = @ + 1,
                                !.interleaved =
                                    @ \/ \E q \in Callers \ {p} : procs[q].pc # "idle"]

\* update_threat_score, line 151
WriteScore(p, threat_score) ==
    /\ BeginCall(p)
    /\ api_keys' = set_threat_score(api_keys, E2EKey, threat_score)
    /\ procs' = [procs EXCEPT ![p] = [pc |-> "scored", threat_score |-> threat_score]]
    /\ UNCHANGED <<now, buckets, ddos, ddos_events, whitelist, keyHist, ret, allowLog,
                   runLimits, nAllowed, tvStore, tdStore>>

\* update_threat_score, lines 154-156
WriteStatus(p) ==
    /\ procs[p].pc = "scored"
    /\ api_keys' = suspend_if_high(api_keys, E2EKey, procs[p].threat_score)
    /\ procs' = [procs EXCEPT ![p] = [pc |-> "idle"]]
    /\ ret' = [op |-> "update_threat_score", api_key |-> E2EKey,
               threat_score |-> procs[p].threat_score]
    /\ UNCHANGED <<now, buckets, ddos, ddos_events, whitelist, keyHist, allowLog,
                   runLimits, nAllowed, reqLog, tvStore, tdStore>>

\* validate_api_key, lines 69-83: the hash is read; a missing or inactive key
\* is rejected at once
ReadKey(p) ==
    LET key_data == api_keys[E2EKey]
        rejected == ~key_data.present \/ Inactive(key_data.status)
    IN  /\ BeginCall(p)
        /\ procs' = [procs EXCEPT ![p] =
                         IF rejected THEN [pc |-> "idle"]
                         ELSE [pc |-> "read", key_data |-> key_data]]
        /\ ret' = IF rejected
                  THEN [op |-> "validate_api_key", api_key |-> E2EKey,
                        context |-> InvalidContext]
                  ELSE ret
        /\ UNCHANGED <<now, buckets, ddos, ddos_events, keyVars, allowLog, runLimits,
                       nAllowed, tvStore, tdStore>>

\* validate_api_key, lines 85-113, without ip_address: usage_count and
\* last_used are written, the context is built from the hash read before
ReturnContext(p) ==
    LET key_data == procs[p].key_data
    IN  /\ procs[p].pc = "read"
        /\ api_keys' = [api_keys EXCEPT ![E2EKey].usage_count = @ + 1,
                                        ![E2EKey].last_used = now \div TicksPerSec]
        /\ procs' = [procs EXCEPT ![p] = [pc |-> "idle"]]
        /\ ret' = [op |-> "validate_api_key", api_key |-> E2EKey,
                   context |-> [api_key_id |-> E2EKey,
                                user_id |-> key_data.user_id,
                                tier |-> IF key_data.tier = "" THEN "free"
                                         ELSE key_data.tier,
                                is_valid |-> TRUE,
                                threat_score |-> key_data.threat_score]]
        /\ UNCHANGED <<now, buckets, ddos, ddos_events, whitelist, keyHist, allowLog,
                       runLimits, nAllowed, reqLog, tvStore, tdStore>>

NextKeyRace ==
    \/ \E p \in Callers, threat_score \in UpdateScores : WriteScore(p, threat_score)
    \/ \E p \in Callers : WriteStatus(p)
    \/ \E p \in Callers : ReadKey(p)
    \/ \E p \in Callers : ReturnContext(p)

SpecKeyRace == InitKeyRace /\ [][NextKeyRace]_vars

(* C27: in every interleaving of validate_api_key with update_threat_score  *)
(* on one key, validate_api_key never returns a valid context whose         *)
(* threat_score is greater than 8.0.                                        *)
C27_NoValidContextAboveThreshold ==
    (ret.op = "validate_api_key" /\ ret.context.is_valid)
        => ret.context.threat_score <= suspend_threshold

(***************************************************************************)
(* A client that is denied and comes back: check_rate_limit on one bucket,  *)
(* at once, half a second later, or after the retry_after of a denial.      *)
(***************************************************************************)
MaxRetryChecks == 3

\* what earlier checks at time 0 left in the bucket: 0, 0.05, 0.5 or 0.9 token
RetryTokens == {0, TokenUnit \div 20, TokenUnit \div 2, (9 * TokenUnit) \div 10}

InitRetry ==
    /\ now = 0
    /\ \E tokens \in RetryTokens :
          buckets = [k \in BucketKeys |->
                        IF k = FreeKey
                        THEN [present |-> TRUE, tokens |-> tokens, last_refill |-> 0,
                              expire_at |-> BucketTTL * TicksPerSec]
                        ELSE NoBucket]
    /\ reqLog = NoRequests
    /\ ddos = [ip \in IPs |-> NoDdos]
    /\ ddos_events = {}
    /\ ret = [op |-> "init"]
    /\ allowLog = [k \in BucketKeys |-> <<>>]
    /\ runLimits = [k \in BucketKeys |-> default_limits("free")]
    /\ nAllowed = [k \in BucketKeys |-> 0]
    /\ tvStore = EmptyStore
    /\ tdStore = EmptyDetector
    /\ procs = NoCalls
    /\ InitKeys
    /\ whitelist = [k \in KeySpace |-> NoWhitelist]

\* gap ticks after the check before, check_rate_limit("key1", tier, threat_score);
\* ret.before is the result of the check before
CheckAfter(gap, tier, threat_score) ==
    LET t == now + gap
        out == check_rate_limit(buckets, "key1", "api_key", tier, "", threat_score,
                                t, "none")
    IN  /\ reqLog.n < MaxRetryChecks
        /\ now' = t
        /\ buckets' = out.buckets
        /\ reqLog' = [reqLog EXCEPT !.n = @ + 1]
        /\ ret' = [op |-> "check_rate_limit", key |-> out.key, limits |-> out.limits,
                   fail |-> "none", result |-> out.result, tier |-> tier,
                   threat_score |-> threat_score, gap |-> gap,
                   before |-> IF ret.op = "check_rate_limit"
                              THEN [tier |-> ret.tier, threat_score |-> ret.threat_score,
                                    action |-> ret.result.action,
                                    retry_after |-> ret.result.retry_after]
                              ELSE [tier |-> "", threat_score |-> 0, action |-> "none",
                                    retry_after |-> None]]
        /\ UNCHANGED <<ddos, ddos_events, keyVars, allowLog, runLimits, nAllowed,
                       tvStore, tdStore, procs>>

Denied == ret.op = "check_rate_limit" /\ ret.result.action \in {"throttle", "block"}

\* the client waits for the retry_after of its denial, or half a second more,
\* and sends the same request
RetryAfterDenial(extra) ==
    /\ Denied
    /\ CheckAfter(ret.result.retry_after * TicksPerSec + extra, ret.tier,
                  ret.threat_score)

NextRetry ==
    \/ \E gap \in {0, 1}, in \in TierAndThreat : CheckAfter(gap, in[1], in[2])
    \/ \E extra \in {0, 1} : RetryAfterDenial(extra)

SpecRetry == InitRetry /\ [][NextRetry]_vars

(* C29: after check_rate_limit has answered THROTTLE or BLOCK with          *)
(* retry_after = r for a bucket, the next check on that bucket, made r      *)
(* seconds later or more with the same tier and threat score, answers       *)
(* ALLOW.                                                                   *)
C29_AllowedAfterRetryAfter ==
    (/\ ret.op = "check_rate_limit"
     /\ ret.before.action \in {"throttle", "block"}
     /\ ret.before.tier = ret.tier
     /\ ret.before.threat_score = ret.threat_score
     /\ ret.gap >= ret.before.retry_after * TicksPerSec)
        => ret.result.action = "allow"

\* BLOCKed at a threat score of 9.0 with retry_after r, allowed r seconds later
C29_Witness ==
    /\ ret.op = "check_rate_limit"
    /\ ret.before.action = "block"
    /\ ret.before.tier = ret.tier
    /\ ret.threat_score = 90 /\ ret.before.threat_score = 90
    /\ ret.gap = ret.before.retry_after * TicksPerSec
    /\ ret.result.action = "allow"

=============================================================================
